---- MODULE Spec2Model ----
(***************************************************************************)
(* Model of the credential engine of rmm_server: the JWT claims decoder    *)
(* (auth_playwright_optimized.py), the single-file token cache and the     *)
(* lifecycle manager (auth_mcp_server.py: TokenManager, extract_auth_token,*)
(* _get_valid_token) and the request facade (_make_api_call,               *)
(* _handle_response).                                                      *)
(*                                                                         *)
(* Python values are modelled structurally.  A dict is a function whose    *)
(* domain is its set of keys; None and strings carry a "py" tag so that a  *)
(* dict is recognised by the absence of that tag (isinstance(x, dict)).    *)
(* Tool calls run on one asyncio event loop: a step of the model is the    *)
(* code between two suspension points, so everything a handler does after  *)
(* the browser automation has ended (API probe, saves, reload, check,     *)
(* HTTP call, logging) is one step.                                        *)
(***************************************************************************)
EXTENDS Integers, Sequences, FiniteSets, TLC

VARIABLES
    now,         \* int(time.time()) / datetime.now(), in abstract time units
    files,       \* the file system: path -> content of auth_token.json there
    extFile,     \* the path AuthTokenExtractor.token_file resolves to
    extractor,   \* TokenManager.extractor: None or the shared AuthTokenExtractor
    pc,          \* per tool call: where the coroutine is suspended
    call,        \* per tool call: its operation and locals
    ret,         \* per tool call: the value it returned
    ioFaults,    \* how many more writes of the file the environment may fail
    logObs,      \* per tool call: what its call-logging step loaded and appended
    requests,    \* how many downstream responses have been handled so far
    decArg,      \* decoder harness: the token handed to is_jwt_expired
    decRes,      \* decoder harness: what is_jwt_expired returned
    page,        \* the automation seen step by step: its place in a selector
                 \* list, its last browser operation, where the header it
                 \* stored came from
    tool         \* the firmware tool whose handler is running: its name, its
                 \* arguments, the payload it built, whether it read the cache

vars == <<now, files, extFile, extractor, pc, call, ret, ioFaults, logObs,
          requests, decArg, decRes, page, tool>>

----------------------------------------------------------------------------
(* Bounds of the model *)

\* the clock runs from 0 to MaxTime
MaxTime == 2
\* downstream responses handled in one behaviour of the facade scenario
MaxRequests == 12
\* the clock of the facade scenario runs from 0 to MaxTimeFacade
MaxTimeFacade == 1
\* writes of the cache file that may fail in one behaviour
MaxIOFaults == 1
\* largest exp (and largest clock value) handed to the decoder harness
MaxExp == 4

\* the slots for tool calls in flight
AllCallers == {1, 2}
\* the slots the sequential scenarios use: one tool call at a time
Callers == {1}

----------------------------------------------------------------------------
(* Python values *)

None == [py |-> "None"]
EmptyDict == [k \in {} |-> None]

IsNone(v) == v = None
IsDict(v) == "py" \notin DOMAIN v
IsStr(v) == "py" \in DOMAIN v /\ v.py = "str"

\* d.get(k): None when the key is missing
Get(d, k) == IF k \in DOMAIN d THEN d[k] ELSE None
\* d.get(k, default)
GetOr(d, k, default) == IF k \in DOMAIN d THEN d[k] ELSE default
\* mutant: a fresh dict that holds only the key
SetKeyOnly(d, k, v) == [x \in {k} |-> v]
\* d[k] = v on a dict
SetKey(d, k, v) == [x \in DOMAIN d \cup {k} |-> IF x = k THEN v ELSE d[x]]

(* A token string, by what the decoder can see of it:                      *)
(*   form    "empty" (''), "blank" (whitespace only) or "text"             *)
(*   nseg    the number of segments token.split('.') yields                *)
(*   mid     what decoding segment [1] gives: "badb64" (urlsafe_b64decode  *)
(*           raises), "badjson" (json.loads raises), "nonobject" (JSON     *)
(*           that is no object: .get raises) or "object"                   *)
(*   expKind the exp claim of the object: "absent", "null", "string"       *)
(*           (a non-number: now >= exp raises) or "int"                    *)
(*   expVal  the value of an "int" exp, seconds since the epoch            *)
Str(form, nseg, mid, expKind, expVal) ==
    [py |-> "str", form |-> form, nseg |-> nseg, mid |-> mid,
     expKind |-> expKind, expVal |-> expVal]

EmptyStr == Str("empty", 1, "none", "absent", 0)
BlankStr == Str("blank", 1, "none", "absent", 0)
\* a well-formed JWT whose claims carry the integer exp e
Jwt(e) == Str("text", 3, "object", "int", e)

\* bool(v) of a string or None
Truthy(v) == IsStr(v) /\ v.form # "empty"
\* bool(v.strip())
StripTruthy(v) == IsStr(v) /\ v.form = "text"

(* datetime.now().isoformat(): the code writes these stamps and never      *)
(* reads one back, so the model keeps the keys and not the instants        *)
isoformat(t) == "timestamp"

----------------------------------------------------------------------------
(* Claims decoder: is_jwt_expired *)

Raised == [raised |-> TRUE, value |-> FALSE]
Returned(b) == [raised |-> FALSE, value |-> b]

\* mutant of the comparison: expired only when now > exp
is_jwt_expired_try_gt(token, t) ==
    IF ~IsStr(token) THEN Raised
    ELSE IF token.nseg < 2 THEN Raised
    ELSE IF token.mid # "object" THEN Raised
    ELSE IF token.expKind \in {"absent", "null"} THEN Returned(TRUE)
    ELSE IF token.expKind = "string" THEN Raised
    ELSE Returned(t > token.expVal)

\* the body of the try block, at clock value t
is_jwt_expired_try(token, t) ==
    IF ~IsStr(token) THEN Raised                 \* None.split: AttributeError
    ELSE IF token.nseg < 2 THEN Raised           \* split('.')[1]: IndexError
    ELSE IF token.mid = "badb64" THEN Raised     \* urlsafe_b64decode raises
    ELSE IF token.mid = "badjson" THEN Raised    \* json.loads raises
    ELSE IF token.mid = "nonobject" THEN Raised  \* payload_json.get raises
    ELSE IF token.expKind \in {"absent", "null"} THEN Returned(TRUE)
    ELSE IF token.expKind = "string" THEN Raised \* now >= exp: TypeError
    ELSE Returned(t >= token.expVal)

\* mutant of the except clause: an undecodable token counts as not expired
is_jwt_expired_failopen(token, t) ==
    LET r == is_jwt_expired_try(token, t)
    IN  IF r.raised THEN FALSE ELSE r.value

\* try: ... except Exception: return True
is_jwt_expired(token, t) ==
    LET r == is_jwt_expired_try(token, t)
    IN  IF r.raised THEN TRUE ELSE r.value

----------------------------------------------------------------------------
(* The cache file *)

\* TokenManager.token_file: auth_token.json beside the module
ManagerFile == "module_dir"
\* where a relative TOKEN_FILE lands when the working directory is elsewhere
OtherFile == "cwd"
Paths == {ManagerFile, OtherFile}

\* no file at the path
Absent == [st |-> "absent"]
\* a file cut short by a failed write: not JSON
Truncated == [st |-> "garbage"]
\* json.dump(data, f): the text that encodes data
json_dump(data) == [st |-> "json", value |-> data]
\* json.load(f): the value the text encodes; raises on text that is not JSON
json_load(text) ==
    IF text.st = "json" THEN Returned(text.value) ELSE Raised

WriteOutcomes == {"ok", "open_fails", "write_fails"}

\* mutant: a write merges the new keys into the document already there
WriteFileMerging(fs, path, data, outcome) ==
    CASE outcome = "ok" ->
            IF fs[path].st = "json" /\ IsDict(fs[path].value) /\ IsDict(data)
            THEN [fs EXCEPT ![path] =
                    json_dump([k \in DOMAIN fs[path].value \cup DOMAIN data |->
                                 IF k \in DOMAIN data THEN data[k]
                                 ELSE fs[path].value[k]])]
            ELSE [fs EXCEPT ![path] = json_dump(data)]
      [] outcome = "open_fails" -> fs
      [] outcome = "write_fails" -> [fs EXCEPT ![path] = Truncated]

(* with open(path, 'w') as f: json.dump(data, f).  open truncates the file *)
(* before anything is written, so a write that fails after open leaves a   *)
(* file that is not JSON; a failing open leaves the file as it was.        *)
WriteFile(fs, path, data, outcome) ==
    CASE outcome = "ok" -> [fs EXCEPT ![path] = json_dump(data)]
      [] outcome = "open_fails" -> fs
      [] outcome = "write_fails" -> [fs EXCEPT ![path] = Truncated]

\* mutant: no except clause, the decode error leaves load_token_data
load_token_data_unguarded(fs) ==
    IF fs[ManagerFile] # Absent
    THEN LET r == json_load(fs[ManagerFile])
         IN  IF r.raised THEN Raised ELSE r.value
    ELSE None

\* TokenManager.load_token_data
load_token_data(fs) ==
    IF fs[ManagerFile] # Absent
    THEN LET r == json_load(fs[ManagerFile])
         IN  IF r.raised
             THEN [error |-> "Failed to load token data"]
             ELSE r.value
    ELSE None

\* TokenManager.save_token_data: the files afterwards and the dict returned
save_token_data(fs, data, outcome) ==
    [files |-> WriteFile(fs, ManagerFile, data, outcome),
     result |-> IF outcome = "ok"
                THEN [success |-> TRUE, message |-> "Token data saved successfully"]
                ELSE [success |-> FALSE, error |-> "Failed to save token data"]]

\* `await token_manager.load_token_data() or {}`
LoadOrEmpty(fs) ==
    LET d == load_token_data(fs)
    IN  IF IsNone(d) \/ DOMAIN d = {} THEN EmptyDict ELSE d

(* token_data.get("token_extraction", {}) and then                         *)
(* extraction_result.get("token") if isinstance(extraction_result, dict)   *)
(* else None                                                               *)
TokenOf(token_data) ==
    LET extraction_result == GetOr(token_data, "token_extraction", EmptyDict)
    IN  IF IsDict(extraction_result) THEN Get(extraction_result, "token") ELSE None

\* the token the lifecycle manager finds in its cache file
CachedToken(fs) == TokenOf(LoadOrEmpty(fs))

\* mutant: the whole test negated (`if not (token and ... )`)
cached_token_ok_negated(token, t) ==
    ~(Truthy(token) /\ StripTruthy(token) /\ ~is_jwt_expired(token, t))

\* mutant: the inverted test (extract when the stored token is NOT expired)
cached_token_ok_inverted(token, t) ==
    Truthy(token) /\ StripTruthy(token) /\ is_jwt_expired(token, t)

\* `token and token.strip() and not is_jwt_expired(token)` on the cached token
cached_token_ok(token, t) ==
    Truthy(token) /\ StripTruthy(token) /\ ~is_jwt_expired(token, t)

\* mutant: the reloaded token is returned without the expiry check
fresh_token_ok_unchecked(token, t) == Truthy(token) /\ StripTruthy(token)

\* the same test on the token reloaded after an extraction
fresh_token_ok(token, t) ==
    Truthy(token) /\ StripTruthy(token) /\ ~is_jwt_expired(token, t)

----------------------------------------------------------------------------
(* AuthTokenExtractor: what a browser run hands back *)

\* AuthTokenExtractor.__init__: intercepted_token starts as None
NewExtractor == [intercepted_token |-> None]

\* _create_success_response (url and page title are left out)
_create_success_response(token, source, t) ==
    [success |-> TRUE, token |-> token, source |-> source, extracted_at |-> isoformat(t)]

\* _create_failure_response
_create_failure_response(error, t) ==
    [success |-> FALSE, token |-> None, error |-> error, extracted_at |-> isoformat(t)]

\* the dict returned when no token was found but the URL carries code=...
PartialSuccessResponse(t) ==
    [success |-> FALSE, token |-> None, authorization_code |-> "code",
     message |-> "Login successful but JWT token not found", extracted_at |-> isoformat(t)]

\* the dict built by login_and_extract_token's `except Exception as e`
LoginExceptionResponse(error, t) ==
    [success |-> FALSE, error |-> error, extracted_at |-> isoformat(t)]

\* test_api_with_token: the probe of the tenant-list endpoint answered `status`
test_api_with_token(token, status, t) ==
    [success |-> (status = 200), status_code |-> status, tested_at |-> isoformat(t)]

\* the document save_token_to_file writes
ExtractorDocument(token_data, api_test_result, t) ==
    [token_extraction |-> token_data, api_test |-> api_test_result, saved_at |-> isoformat(t)]

(* AuthTokenExtractor.save_token_to_file: an open() without try, so a      *)
(* failing write raises out of run()                                       *)
save_token_to_file(fs, path, token_data, api_test_result, t, outcome) ==
    [files |-> WriteFile(fs, path, ExtractorDocument(token_data, api_test_result, t),
                         outcome),
     raised |-> outcome # "ok"]

(* AuthTokenExtractor.run after login_and_extract_token has returned       *)
(* token_result: probe the API, save, return.  The outcome is              *)
(* [files, raised, value].                                                 *)
run(fs, path, token_result, probe, t, outcome) ==
    IF token_result.success
    THEN LET api_result == test_api_with_token(token_result.token, probe, t)
             saved == save_token_to_file(fs, path, token_result, api_result, t, outcome)
         IN  [files |-> saved.files, raised |-> saved.raised,
              value |-> [success |-> TRUE, token |-> token_result.token,
                         api_test |-> api_result]]
    ELSE LET saved == save_token_to_file(fs, path, token_result, None, t, outcome)
         IN  [files |-> saved.files, raised |-> saved.raised, value |-> token_result]

\* login_and_extract_token raised (the browser could not be launched)
RunRaised(fs) == [files |-> fs, raised |-> TRUE, value |-> None]

----------------------------------------------------------------------------
(* TokenManager.run_playwright_token_extraction *)

\* mutant: the record is stored under the key of an older revision
ManagerDocumentLegacyKey(result, t) ==
    [extraction_result |-> [success |-> TRUE, token |-> result.token,
                            source |-> "playwright_extraction", extracted_at |-> isoformat(t)],
     api_test |-> Get(result, "api_test"),
     saved_at |-> isoformat(t)]

\* the document written for a successful extraction
ManagerDocument(result, t) ==
    [token_extraction |-> [success |-> TRUE, token |-> result.token,
                           source |-> "playwright_extraction", extracted_at |-> isoformat(t)],
     api_test |-> Get(result, "api_test"),
     saved_at |-> isoformat(t)]

\* does the manager write its file for this outcome of run()?
ManagerWrites(ran) ==
    ran.raised \/ (ran.value.success /\ Truthy(Get(ran.value, "token")))

(* The part of run_playwright_token_extraction after `await                *)
(* self.get_extractor().run()`: [files, value].  The dict save_token_data  *)
(* returns is dropped in both branches.                                    *)
run_playwright_token_extraction(ran, t, outcome) ==
    IF ran.raised
    THEN LET error_data == [success |-> FALSE, error |-> "exception",
                            extracted_at |-> isoformat(t)]
         IN  [files |-> save_token_data(ran.files, error_data, outcome).files,
              value |-> error_data]
    ELSE LET result == ran.value
             extraction_result ==
                 [success |-> result.success, token |-> Get(result, "token"),
                  message |-> "Token extraction completed successfully.",
                  retrieved_at |-> isoformat(t)]
         IN  [files |-> IF result.success /\ Truthy(Get(result, "token"))
                        THEN save_token_data(ran.files, ManagerDocument(result, t),
                                             outcome).files
                        ELSE ran.files,
              value |-> extraction_result]

----------------------------------------------------------------------------
(* The handlers of auth_mcp_server.py, after the point where they resume   *)

\* extract_auth_token's answer when the cached token is still good
ExtractHitResult(token, t) ==
    [success |-> TRUE, token |-> token,
     message |-> "Valid JWT token found. Skipping extraction.",
     retrieved_at |-> isoformat(t)]

\* the list [token, token_data] _get_valid_token returns
TokenList(token, token_data) ==
    [py |-> "list", token |-> token, token_data |-> token_data]

(* _get_valid_token after `extraction = await ...`: reload the cache and   *)
(* test the stored token again; None unless both the extraction and the    *)
(* test succeed                                                            *)
_get_valid_token_after(fs, extraction, t) ==
    IF extraction.success /\ Truthy(Get(extraction, "token"))
    THEN LET token_data == LoadOrEmpty(fs)
             token == TokenOf(token_data)
         IN  IF fresh_token_ok(token, t)
             THEN TokenList(token, token_data)
             ELSE None
    ELSE None

\* mutant: a call whose extraction gave no token starts another run
AfterExtractionRetry(value, runs) ==
    IF IsNone(value) /\ runs < 2 THEN "launch" ELSE "done"

(* where a _get_valid_token whose extraction has ended goes next: it       *)
(* returns (`return [token, token_data]` or `return None`), there is no    *)
(* loop back to the extraction                                             *)
AfterExtraction(value, runs) == "done"

\* the size api_log[-10:] keeps
HistoryLimit == 10

\* mutant: seq[:n], the oldest n entries are kept
FirstN(seq, n) ==
    IF Len(seq) <= n THEN seq ELSE SubSeq(seq, 1, n)

\* mutant: no trim
NoTrim(seq, n) == seq

\* seq[-n:]
LastN(seq, n) ==
    IF Len(seq) <= n THEN seq ELSE SubSeq(seq, Len(seq) - n + 1, Len(seq))

\* method.upper() on the method names the model uses
upper(method) ==
    CASE method = "get" -> "GET"
      [] method = "post" -> "POST"
      [] method = "put" -> "PUT"
      [] method = "delete" -> "DELETE"
      [] OTHER -> method

SupportedMethods == {"GET", "POST", "PUT", "DELETE"}

\* the endpoint make_api_request uses by default
DefaultEndpoint == "/rmm/fss/fwupd/getFirmwareUpdateList"

NoObs == [logged |-> FALSE, loaded |-> <<>>, entry |-> None, saved |-> FALSE]

\* mutant: only a plain 200 counts as a success
status_ok_only_200(status) == status = 200

\* "success": response.status_code in [200, 201, 204]
status_ok(status) == status \in {200, 201, 204}

\* mutant: the entry is appended to a history read before other calls logged
_handle_response_stale_log(fs, status, endpoint, method, stamp, outcome) ==
    LET token_data == LoadOrEmpty(fs)
        result == [success |-> status_ok(status),
                   status_code |-> status,
                   response_data |-> "body",
                   endpoint |-> endpoint,
                   method |-> upper(method),
                   requested_at |-> stamp]
        new_data == SetKey(token_data, "api_calls", <<result>>)
    IN  [files |-> save_token_data(fs, new_data, outcome).files,
         value |-> result,
         wrote |-> TRUE,
         obs |-> [logged |-> TRUE,
                  loaded |-> <<>>,
                  entry |-> result,
                  saved |-> (outcome = "ok")]]

(* requested_at is datetime.now() read at microsecond resolution, later for *)
(* each later call; the model stamps an entry with the ordinal of the      *)
(* response it records.                                                    *)
(* _handle_response: load the cache, build the entry, append it to         *)
(* api_calls, keep the last HistoryLimit, save, return the entry           *)
_handle_response(fs, status, endpoint, method, stamp, outcome) ==
    LET token_data == LoadOrEmpty(fs)
        result == [success |-> status_ok(status),
                   status_code |-> status,
                   response_data |-> "body",
                   endpoint |-> endpoint,
                   method |-> upper(method),
                   requested_at |-> stamp]
        api_log == Append(GetOr(token_data, "api_calls", <<>>), result)
        new_data == SetKey(token_data, "api_calls", LastN(api_log, HistoryLimit))
    IN  [files |-> save_token_data(fs, new_data, outcome).files,
         value |-> result,
         wrote |-> TRUE,
         obs |-> [logged |-> TRUE,
                  loaded |-> GetOr(token_data, "api_calls", <<>>),
                  entry |-> result,
                  saved |-> (outcome = "ok")]]

\* does _make_api_call reach the HTTP request with this token and method?
SendsRequest(token, method) ==
    /\ ~IsNone(token)
    /\ Truthy(token.token)
    /\ upper(method) \in SupportedMethods

\* mutant: no except clause around the request, the exception leaves the call
_make_api_call_after_uncaught(fs, token, endpoint, method, http, stamp, outcome) ==
    IF IsNone(token) \/ ~Truthy(token.token)
    THEN [files |-> fs,
          value |-> [success |-> FALSE,
                     error |-> "No valid token found or failed to extract token."],
          wrote |-> FALSE, obs |-> NoObs]
    ELSE IF upper(method) \in SupportedMethods
    THEN IF http.kind = "response"
         THEN _handle_response(fs, http.status, endpoint, method, stamp, outcome)
         ELSE [files |-> fs, value |-> Raised, wrote |-> FALSE, obs |-> NoObs]
    ELSE [files |-> fs,
          value |-> [success |-> FALSE, error |-> "Unsupported HTTP method"],
          wrote |-> FALSE, obs |-> NoObs]

(* _make_api_call after `token = await _get_valid_token()`.  http is what  *)
(* the requests call does: [kind |-> "response", status |-> s] or          *)
(* [kind |-> "exception"].                                                 *)
_make_api_call_after(fs, token, endpoint, method, http, stamp, outcome) ==
    IF IsNone(token) \/ ~Truthy(token.token)
    THEN [files |-> fs,
          value |-> [success |-> FALSE,
                     error |-> "No valid token found or failed to extract token."],
          wrote |-> FALSE, obs |-> NoObs]
    ELSE IF upper(method) \in SupportedMethods
    THEN IF http.kind = "response"
         THEN _handle_response(fs, http.status, endpoint, method, stamp, outcome)
         ELSE \* except Exception: the entry is built and appended in memory,
              \* the save is commented out
              [files |-> fs,
               value |-> [success |-> FALSE, error |-> "transport",
                          endpoint |-> endpoint, method |-> upper(method),
                          requested_at |-> stamp],
               wrote |-> FALSE, obs |-> NoObs]
    ELSE [files |-> fs,
          value |-> [success |-> FALSE, error |-> "Unsupported HTTP method"],
          wrote |-> FALSE, obs |-> NoObs]

----------------------------------------------------------------------------
(* What the environment can supply *)

\* bearer tokens the identity provider's session can expose
EnvTokens == {Jwt(1), Jwt(MaxTime)}
\* status codes the probe of the API answers with
ProbeStatuses == {200, 401}
\* what a downstream request does
HttpOutcomes ==
    {[kind |-> "response", status |-> 200],
     [kind |-> "exception", status |-> 0]}
NoHttp == [kind |-> "exception", status |-> 0]
\* methods handed to _make_api_call
FacadeMethods == {"get", "PATCH"}

Faults(outcome) == IF outcome = "ok" THEN 0 ELSE 1
\* what a write may do while the environment can still fail k writes
AllowedOutcomes(k) == IF k > 0 THEN WriteOutcomes ELSE {"ok"}

(* the locals of a call; browser is the browser of its run: "none" (not    *)
(* launched), "open" or "closed"                                           *)
IdleCall ==
    [op |-> "none", method |-> "none", runs |-> 0, result |-> None,
     browser |-> "none"]
\* marks a run whose login_and_extract_token raised instead of returning
LaunchRaised == [raised |-> TRUE]

\* a browser operation of the automation: what was tried, on which entry of
\* which selector list, and what the browser did
Step(op, key, sel, outcome) ==
    [op |-> op, key |-> key, sel |-> sel, outcome |-> outcome]
NoStep == Step("none", "none", 0, "none")
(* no automation has acted yet; sel is the loop index, 1 outside a loop;    *)
(* heard tells whether the listeners of the current page have stored a     *)
(* token                                                                   *)
NoPage == [sel |-> 1, last |-> NoStep, token_url |-> "none", heard |-> FALSE]

\* the coroutine positions at which the run's page exists and is listened to
PageOpen == {"auth0_login", "sharp_start", "sharp_login", "dashboard",
             "extract", "trigger", "rest"}

\* no firmware tool is running
NoTool == [name |-> "none", args |-> None, payload |-> None, cache_read |-> FALSE]

----------------------------------------------------------------------------
(* Initial state: a fresh process, no cache file yet *)

InitWith(faults) ==
    /\ now = 0
    /\ files = [p \in Paths |-> Absent]
    /\ extFile \in Paths
    /\ extractor = None
    /\ pc = [c \in AllCallers |-> "idle"]
    /\ call = [c \in AllCallers |-> IdleCall]
    /\ ret = [c \in AllCallers |-> None]
    /\ ioFaults = faults
    /\ logObs = [c \in AllCallers |-> NoObs]
    /\ requests = 0
    /\ decArg = None
    /\ decRes = [done |-> FALSE, value |-> FALSE]
    /\ page = NoPage
    /\ tool = NoTool

Init == InitWith(MaxIOFaults)
\* the facade scenario: every write of the cache file succeeds
InitFacade == InitWith(0)

----------------------------------------------------------------------------
(* The firmware tools of auth_mcp_server.py *)

\* a group id; an omitted one is None
GroupId(id) == [py |-> "str", id |-> id]
\* the sspTenantId claim the identity provider puts into the account's tokens
AccountTenant == GroupId("tenant-of-account")
\* the group id the handlers fall back to
DefaultGroupId == GroupId("6d167a66-9c03-b981-6e37-8770c76676be")
\* an hour argument that was given; an omitted one is None
Hour(h) == [py |-> "int", value |-> h]

(* _decode_jwt_payload: jwt.decode(token, options={"verify_signature":     *)
(* False}) checks neither the signature nor exp; it raises (and None is    *)
(* returned) unless the string has three segments and a JSON object as     *)
(* payload                                                                 *)
_decode_jwt_payload(token) ==
    IF IsStr(token) /\ token.nseg = 3 /\ token.mid = "object"
    THEN [sspTenantId |-> AccountTenant]
    ELSE None

(* _get_group_id_from_token: the sspTenantId of the token stored in the    *)
(* cache file, whatever its exp; None when there is no token or no claim   *)
_get_group_id_from_token(fs) ==
    LET token == TokenOf(LoadOrEmpty(fs))
    IN  IF ~Truthy(token) \/ ~StripTruthy(token)
        THEN None
        ELSE LET payload == _decode_jwt_payload(token)
             IN  IF IsNone(payload) THEN None ELSE Get(payload, "sspTenantId")

(* `if not group_id: group_id = await _get_group_id_from_token()` and then *)
(* `if not group_id: group_id = default_group_id`                          *)
resolve_group_id(group_id, fs) ==
    IF ~IsNone(group_id)
    THEN group_id
    ELSE LET from_token == _get_group_id_from_token(fs)
         IN  IF ~IsNone(from_token) THEN from_token ELSE DefaultGroupId

valid_modes == {"auto", "confirmation", "off"}

\* the device ids of the model that match r'^mn=[A-Za-z0-9+/=]+:sn=[A-Za-z0-9+/=]+$'
device_id_pattern == {"mn=TVgtMzA3MA==:sn=MTIzNDU2Nzg="}
\* the firmware file ids of the model that match the UUID pattern
uuid_pattern == {"0f8fad5b-d9cb-469f-a165-70867728950e"}
\* the execute_datetime strings of the model that match r'^\d{12}$'
datetime_pattern == {"203001010200"}

\* mutant: every device id is taken as well-formed
invalid_devices_none(device_ids) == <<>>

\* the ids of the list that do not match the pattern
invalid_devices(device_ids) ==
    SelectSeq(device_ids, LAMBDA device_id : device_id \notin device_id_pattern)

\* `if start_hour is None: start_hour = 2`, `if end_hour is None: end_hour = 4`
hour_or(hour, default) == IF IsNone(hour) THEN default ELSE hour.value

(* The validation with which a handler begins: "ok", or the error it       *)
(* returns with.                                                           *)
configure_ota_mode_validate(args) ==
    LET start_hour == hour_or(args.start_hour, 2)
        end_hour == hour_or(args.end_hour, 4)
    IN  IF args.ota_mode \notin valid_modes
        THEN "Invalid ota_mode"
        ELSE IF invalid_devices(args.device_ids) # <<>>
        THEN "Invalid device ID format"
        ELSE IF /\ args.ota_mode = "auto"
                /\ ~(/\ -1 <= start_hour /\ start_hour <= 23
                     /\ -1 <= end_hour /\ end_hour <= 23)
        THEN "start_hour and end_hour must be between 0-23 or -1"
        ELSE IF /\ args.ota_mode = "auto"
                /\ start_hour # -1 /\ end_hour # -1 /\ start_hour >= end_hour
        THEN "start_hour must be less than end_hour"
        ELSE "ok"

\* current_timestamp is the clock read at time t
schedule_firmware_update_validate(args, t) ==
    IF invalid_devices(args.device_ids) # <<>>
    THEN "Invalid device ID format"
    ELSE IF args.firmware_file_id \notin uuid_pattern
    THEN "Invalid firmware file ID format"
    ELSE IF args.execute_datetime \notin datetime_pattern
    THEN "Invalid execute_datetime format"
    ELSE IF args.transfer_datetime <= t
    THEN "transfer_datetime must be in the future"
    ELSE "ok"

cancel_scheduled_update_validate(args) ==
    IF invalid_devices(args.device_ids) # <<>>
    THEN "Invalid device ID format"
    ELSE "ok"

\* list_devices and list_staged_firmware reject nothing
validate(name, args, t) ==
    CASE name = "configure_ota_mode" -> configure_ota_mode_validate(args)
      [] name = "schedule_firmware_update" -> schedule_firmware_update_validate(args, t)
      [] name = "cancel_scheduled_update" -> cancel_scheduled_update_validate(args)
      [] OTHER -> "ok"

\* the endpoint a handler posts to
ToolEndpoint(name) ==
    CASE name = "list_devices" -> "/rmm/fss/fwupd/getFirmwareUpdateList"
      [] name = "configure_ota_mode" -> "/stateful/fss/fwupd/setOTAMode"
      [] name = "list_staged_firmware" -> "/rmm/fss/fwupd/getFirmwareDataList"
      [] name = "schedule_firmware_update" -> "/rmm/fss/fwupd/setUpdateReservation"
      [] name = "cancel_scheduled_update" -> "/rmm/fss/fwupd/removeUpdateReservation"
      [] OTHER -> DefaultEndpoint

\* the payload a handler builds once its arguments have passed
ToolPayload(name, args, group_id) ==
    CASE name = "list_devices" ->
            [startIndex |-> 0,
             count |-> IF args.page_size > 100 THEN 100
                       ELSE IF args.page_size < 1 THEN 25 ELSE args.page_size,
             groupId |-> group_id]
      [] name = "configure_ota_mode" ->
            [groupId |-> group_id, deviceIds |-> args.device_ids, isExclude |-> FALSE,
             otaMode |-> args.ota_mode,
             otaStartHour |-> hour_or(args.start_hour, 2),
             otaEndHour |-> hour_or(args.end_hour, 4)]
      [] name = "list_staged_firmware" ->
            [startIndex |-> 0,
             count |-> IF args.count < 100 THEN args.count ELSE 100,
             groupId |-> group_id]
      [] name = "schedule_firmware_update" ->
            [groupId |-> group_id, deviceIds |-> args.device_ids,
             fileId |-> args.firmware_file_id,
             fileTransferTimestamp |-> args.transfer_datetime,
             fileTransferTimeZone |-> "UTC+05:30",
             executeUpdateDateTime |-> args.execute_datetime,
             isExclude |-> FALSE]
      [] name = "cancel_scheduled_update" ->
            [groupId |-> group_id, deviceIds |-> args.device_ids, isExclude |-> FALSE]

\* the handlers that look for common.errorList in the response body
ChecksErrorList == {"configure_ota_mode", "schedule_firmware_update",
                    "cancel_scheduled_update"}

(* What a handler can return once _make_api_call has returned api_result   *)
(* and the cache file is fs: the failure it passes on, "API returned       *)
(* errors" when the body lists errors, or its summary.  With no tool       *)
(* running the value is the facade's own.                                  *)
ToolResults(t, fs, api_result) ==
    IF t.name = "none"
    THEN {api_result}
    ELSE IF ~api_result.success
    THEN {[success |-> FALSE,
           error |-> GetOr(api_result, "error", "failed"),
           endpoint |-> ToolEndpoint(t.name)]}
    ELSE {[success |-> TRUE,
           group_id |-> t.payload.groupId,
           group_id_source |->
              IF t.name # "list_staged_firmware"
                 /\ t.payload.groupId = _get_group_id_from_token(fs)
              THEN "jwt_token" ELSE "parameter_or_fallback"]}
         \cup (IF t.name \in ChecksErrorList
               THEN {[success |-> FALSE, error |-> "API returned errors",
                      endpoint |-> ToolEndpoint(t.name)]}
               ELSE {})

----------------------------------------------------------------------------
(* A handler's remainder once it holds the token question's answer *)

\* on a cache hit: the three handlers from their first `return` on
HitTail(op, fs, token, token_data, method, http, t, stamp, outcome) ==
    CASE op = "extract_auth_token" ->
            [files |-> fs, value |-> ExtractHitResult(token, t),
             wrote |-> FALSE, obs |-> NoObs]
      [] op = "_get_valid_token" ->
            [files |-> fs, value |-> TokenList(token, token_data),
             wrote |-> FALSE, obs |-> NoObs]
      [] op = "_make_api_call" ->
            _make_api_call_after(fs, TokenList(token, token_data), DefaultEndpoint,
                                 method, http, stamp, outcome)

\* after an extraction: extract_auth_token returns its result as it is
MissTail(op, fs, extraction, endpoint, method, http, t, stamp, outcome) ==
    CASE op = "extract_auth_token" ->
            [files |-> fs, value |-> extraction, wrote |-> FALSE, obs |-> NoObs]
      [] op = "_get_valid_token" ->
            [files |-> fs, value |-> _get_valid_token_after(fs, extraction, t),
             wrote |-> FALSE, obs |-> NoObs]
      [] op = "_make_api_call" ->
            _make_api_call_after(fs, _get_valid_token_after(fs, extraction, t),
                                 endpoint, method, http, stamp, outcome)

----------------------------------------------------------------------------
(* Actions *)

(* A tool call starts: load the cache and test the stored token.  A good   *)
(* token ends the call in this step; otherwise the call fetches the shared *)
(* extractor and suspends in its run().                                    *)
Call(c, op, method) ==
    /\ pc[c] = "idle"
    /\ LET token_data == LoadOrEmpty(files)
           token == TokenOf(token_data)
       IN  IF cached_token_ok(token, now)
           THEN LET sends == /\ op = "_make_api_call"
                             /\ SendsRequest(TokenList(token, token_data), method)
                IN  \E http \in (IF sends THEN HttpOutcomes ELSE {NoHttp}),
                       o \in (IF sends THEN AllowedOutcomes(ioFaults) ELSE {"ok"}) :
                      LET tail == HitTail(op, files, token, token_data, method,
                                          http, now, requests + 1, o)
                      IN  /\ ~tail.wrote => o = "ok"
                          /\ tail.wrote => requests < MaxRequests
                          /\ requests' = IF tail.wrote THEN requests + 1
                                          ELSE requests
                          /\ ioFaults' = ioFaults - Faults(o)
                          /\ files' = tail.files
                          /\ ret' = [ret EXCEPT ![c] = tail.value]
                          /\ logObs' = [logObs EXCEPT ![c] = tail.obs]
                          /\ pc' = [pc EXCEPT ![c] = "done"]
                          /\ call' = [call EXCEPT ![c] =
                                        [op |-> op, method |-> method, runs |-> 0,
                                         result |-> None, browser |-> "none"]]
                          /\ UNCHANGED extractor
           ELSE /\ pc' = [pc EXCEPT ![c] = "launch"]
                /\ call' = [call EXCEPT ![c] =
                              [op |-> op, method |-> method, runs |-> 1,
                               result |-> None, browser |-> "none"]]
                /\ extractor' = IF IsNone(extractor) THEN NewExtractor ELSE extractor
                /\ UNCHANGED <<files, ret, logObs, ioFaults, requests>>
    /\ UNCHANGED <<now, extFile, decArg, decRes, page, tool>>

\* mutant: the run leaves without closing the browser
finally_skip(browser) == browser

\* finally: await browser.close(), for a browser that was launched
finally_close(browser) == IF browser = "open" THEN "closed" ELSE browser

\* the run ends with token_result (or LaunchRaised), through the finally
EndRun(c, token_result) ==
    /\ pc' = [pc EXCEPT ![c] = "teardown"]
    /\ call' = [call EXCEPT ![c].result = token_result,
                            ![c].browser = finally_close(@)]
    /\ UNCHANGED <<now, files, extFile, extractor, ret, ioFaults, logObs,
                   requests, decArg, decRes, page, tool>>

\* a login state succeeded: on to the next one
Advance(c, next) ==
    /\ pc' = [pc EXCEPT ![c] = next]
    /\ UNCHANGED <<now, files, extFile, extractor, call, ret, ioFaults, logObs,
                   requests, decArg, decRes, page, tool>>

\* p.firefox.launch, outside the try: a failure raises out of the run
Launch(c) ==
    /\ pc[c] = "launch"
    /\ \E ok \in BOOLEAN :
         IF ok
         THEN /\ pc' = [pc EXCEPT ![c] = "navigate"]
              /\ call' = [call EXCEPT ![c].browser = "open"]
              /\ UNCHANGED <<now, files, extFile, extractor, ret, ioFaults,
                             logObs, requests, decArg, decRes, page, tool>>
         ELSE EndRun(c, LaunchRaised)

(* new_context, new_page, the interceptors, page.goto(login_url): the      *)
(* listeners are attached to a new page and have stored nothing yet        *)
Navigate(c) ==
    /\ pc[c] = "navigate"
    /\ \E ok \in BOOLEAN :
         IF ok
         THEN /\ pc' = [pc EXCEPT ![c] = "auth0_login"]
              /\ UNCHANGED call
         ELSE /\ pc' = [pc EXCEPT ![c] = "teardown"]
              /\ call' = [call EXCEPT
                            ![c].result = LoginExceptionResponse("navigation", now),
                            ![c].browser = finally_close(@)]
    /\ page' = [page EXCEPT !.heard = FALSE]
    /\ UNCHANGED <<now, files, extFile, extractor, ret, ioFaults, logObs,
                   requests, decArg, decRes, tool>>

\* _handle_auth0_login
Auth0Login(c) ==
    /\ pc[c] = "auth0_login"
    /\ \E ok \in BOOLEAN :
         IF ok THEN Advance(c, "sharp_start")
         ELSE EndRun(c, LoginExceptionResponse("Auth0 login failed", now))

\* _handle_sharp_start_selection
SharpStartSelection(c) ==
    /\ pc[c] = "sharp_start"
    /\ \E ok \in BOOLEAN :
         IF ok THEN Advance(c, "sharp_login")
         ELSE EndRun(c, LoginExceptionResponse("Sharp-Start selection failed", now))

\* _handle_sharp_login
SharpLogin(c) ==
    /\ pc[c] = "sharp_login"
    /\ \E ok \in BOOLEAN :
         IF ok THEN Advance(c, "dashboard")
         ELSE EndRun(c, LoginExceptionResponse("Sharp login failed", now))

\* _wait_for_dashboard
WaitForDashboard(c) ==
    /\ pc[c] = "dashboard"
    /\ \E ok \in BOOLEAN :
         IF ok THEN Advance(c, "extract")
         ELSE EndRun(c, LoginExceptionResponse("Dashboard redirect failed", now))

\* Priority 1: a token the interceptors have already stored
Priority1(c) ==
    /\ pc[c] = "extract"
    /\ IF Truthy(extractor.intercepted_token)
       THEN EndRun(c, _create_success_response(extractor.intercepted_token,
                                               "api_request_interception", now))
       ELSE Advance(c, "trigger")

(* Priority 2: _trigger_api_calls returns True only from a check that      *)
(* found intercepted_token set after one of its actions                    *)
TriggerApiCalls(c) ==
    /\ pc[c] = "trigger"
    /\ \E found \in BOOLEAN :
         /\ found => Truthy(extractor.intercepted_token)
         /\ IF found
            THEN EndRun(c, _create_success_response(extractor.intercepted_token,
                                                    "api_call_triggered", now))
            ELSE Advance(c, "rest")

(* Priorities 3 to 5, the intercepted fallback, the authorization code,    *)
(* the failure.  fragment, storage and cookie are what the session holds   *)
(* (None: nothing); code is whether the URL carries code=...               *)
CaptureRest(c) ==
    /\ pc[c] = "rest"
    /\ \E fragment \in EnvTokens \cup {None}, storage \in EnvTokens \cup {None},
          cookie \in EnvTokens \cup {None}, code \in BOOLEAN :
         EndRun(c,
            IF Truthy(fragment)
            THEN _create_success_response(fragment, "url_fragment", now)
            ELSE IF Truthy(storage)
            THEN _create_success_response(storage, "browser_storage", now)
            ELSE IF Truthy(cookie)
            THEN _create_success_response(cookie, "cookies", now)
            ELSE IF Truthy(extractor.intercepted_token)
            THEN _create_success_response(extractor.intercepted_token,
                                          "intercepted_fallback", now)
            ELSE IF code
            THEN PartialSuccessResponse(now)
            ELSE _create_failure_response("No token found", now))

(* The page of call c sees a request to the API or a response with a       *)
(* Bearer header.  handle_request always stores the token of such a        *)
(* request, handle_response only when none is stored.  Storing the token   *)
(* that is already stored changes nothing and is left out.                 *)
Intercept(c, token, kind) ==
    /\ pc[c] \in PageOpen
    /\ kind = "response" => ~Truthy(extractor.intercepted_token)
    /\ extractor.intercepted_token # token
    /\ extractor' = [extractor EXCEPT !.intercepted_token = token]
    /\ UNCHANGED <<now, files, extFile, pc, call, ret, ioFaults, logObs,
                   requests, decArg, decRes, page, tool>>


(* The browser has closed and the call runs to its end: run() probes and   *)
(* saves, run_playwright_token_extraction saves, the handler finishes.     *)
(* probe, o1..o3 and http are what the probe, the three writes and the     *)
(* downstream request do; an input the step does not use is fixed.         *)
Teardown(c) ==
    /\ pc[c] = "teardown"
    /\ LET token_result == call[c].result
           raised == token_result = LaunchRaised
           op == call[c].op
       IN  \E probe \in (IF raised \/ ~token_result.success THEN {200}
                         ELSE ProbeStatuses),
              o1 \in (IF raised THEN {"ok"} ELSE AllowedOutcomes(ioFaults)) :
             LET ran == IF raised THEN RunRaised(files)
                        ELSE run(files, extFile, token_result, probe, now, o1)
                 left1 == ioFaults - Faults(o1)
             IN  \E o2 \in (IF ManagerWrites(ran) THEN AllowedOutcomes(left1)
                            ELSE {"ok"}) :
                   LET mgr == run_playwright_token_extraction(ran, now, o2)
                       left2 == left1 - Faults(o2)
                       token == _get_valid_token_after(mgr.files, mgr.value, now)
                       next == IF op = "extract_auth_token" THEN "done"
                               ELSE AfterExtraction(token, call[c].runs)
                       sends == /\ op = "_make_api_call"
                                /\ next = "done"
                                /\ SendsRequest(token, call[c].method)
                   IN  \E http \in (IF sends THEN HttpOutcomes ELSE {NoHttp}),
                          o3 \in (IF sends THEN AllowedOutcomes(left2) ELSE {"ok"}) :
                         LET tail == MissTail(op, mgr.files, mgr.value,
                                              ToolEndpoint(tool.name),
                                              call[c].method, http, now,
                                              requests + 1, o3)
                         IN  /\ ~tail.wrote => o3 = "ok"
                             /\ tail.wrote => requests < MaxRequests
                             /\ requests' = IF tail.wrote THEN requests + 1
                                             ELSE requests
                             /\ ioFaults' = left2 - Faults(o3)
                             /\ IF next = "done"
                                THEN /\ files' = tail.files
                                     /\ \E r \in ToolResults(tool, tail.files,
                                                             tail.value) :
                                           ret' = [ret EXCEPT ![c] = r]
                                     /\ logObs' = [logObs EXCEPT ![c] = tail.obs]
                                     /\ pc' = [pc EXCEPT ![c] = "done"]
                                     /\ UNCHANGED call
                                ELSE /\ files' = mgr.files
                                     /\ pc' = [pc EXCEPT ![c] = next]
                                     /\ call' = [call EXCEPT ![c].runs = @ + 1,
                                                             ![c].result = None]
                                     /\ UNCHANGED <<ret, logObs>>
    /\ UNCHANGED <<now, extFile, extractor, decArg, decRes, page, tool>>

\* the caller takes the result; the slot is free for the next tool call
Return(c) ==
    /\ pc[c] = "done"
    /\ pc' = [pc EXCEPT ![c] = "idle"]
    /\ call' = [call EXCEPT ![c] = IdleCall]
    /\ ret' = [ret EXCEPT ![c] = None]
    /\ logObs' = [logObs EXCEPT ![c] = NoObs]
    /\ UNCHANGED <<now, files, extFile, extractor, ioFaults, requests,
                   decArg, decRes, page, tool>>

\* time passes
Tick(max) ==
    /\ now < max
    /\ now' = now + 1
    /\ UNCHANGED <<files, extFile, extractor, pc, call, ret, ioFaults, logObs,
                   requests, decArg, decRes, page, tool>>

----------------------------------------------------------------------------
(* Specifications *)

LifecycleOps == {"extract_auth_token", "_get_valid_token"}

\* the lifecycle manager: tool calls made one after another
Next ==
    \/ \E c \in Callers, op \in LifecycleOps : Call(c, op, "none")
    \/ \E c \in Callers : Launch(c)
    \/ \E c \in Callers : Navigate(c)
    \/ \E c \in Callers : Auth0Login(c)
    \/ \E c \in Callers : SharpStartSelection(c)
    \/ \E c \in Callers : SharpLogin(c)
    \/ \E c \in Callers : WaitForDashboard(c)
    \/ \E c \in Callers : Priority1(c)
    \/ \E c \in Callers : TriggerApiCalls(c)
    \/ \E c \in Callers : CaptureRest(c)
    \/ \E c \in Callers, token \in EnvTokens, kind \in {"request", "response"} :
          Intercept(c, token, kind)
    \/ \E c \in Callers : Teardown(c)
    \/ \E c \in Callers : Return(c)
    \/ Tick(MaxTime)

Spec == Init /\ [][Next]_vars

\* the request facade: one caller making downstream calls one after another
NextFacade ==
    \/ \E method \in FacadeMethods : Call(1, "_make_api_call", method)
    \/ Launch(1)
    \/ Navigate(1)
    \/ Auth0Login(1)
    \/ SharpStartSelection(1)
    \/ SharpLogin(1)
    \/ WaitForDashboard(1)
    \/ Priority1(1)
    \/ TriggerApiCalls(1)
    \/ CaptureRest(1)
    \/ Teardown(1)
    \/ Return(1)
    \/ Tick(MaxTimeFacade)

SpecFacade == InitFacade /\ [][NextFacade]_vars

----------------------------------------------------------------------------
(* The decoder on its own: is_jwt_expired applied to one token at one time *)

\* strings with fewer than two segments, and None
ShortInputs == {None, EmptyStr, BlankStr, Str("text", 1, "none", "absent", 0)}
\* segment [1] does not decode to a JSON object
UndecodableInputs ==
    {Str("text", n, m, "absent", 0) :
        n \in {2, 3}, m \in {"badb64", "badjson", "nonobject"}}
\* the claims carry no numeric exp
NoExpInputs ==
    {Str("text", n, "object", k, 0) : n \in {2, 3}, k \in {"absent", "null", "string"}}
\* the claims carry an integer exp: a small one, or an hour after a small one
IntExpInputs ==
    {Str("text", n, "object", "int", e) :
        n \in {2, 3}, e \in (0..MaxExp) \cup {x + 3600 : x \in 0..MaxExp}}

DecoderInputs == ShortInputs \cup UndecodableInputs \cup NoExpInputs \cup IntExpInputs

InitDecoder ==
    /\ now \in 0..MaxExp
    /\ decArg \in DecoderInputs
    /\ decRes = [done |-> FALSE, value |-> FALSE]
    /\ files = [p \in Paths |-> Absent]
    /\ extFile = ManagerFile
    /\ extractor = None
    /\ pc = [c \in AllCallers |-> "idle"]
    /\ call = [c \in AllCallers |-> IdleCall]
    /\ ret = [c \in AllCallers |-> None]
    /\ ioFaults = 0
    /\ logObs = [c \in AllCallers |-> NoObs]
    /\ requests = 0
    /\ page = NoPage
    /\ tool = NoTool

\* is_jwt_expired(decArg) is called at time now
Decode ==
    /\ ~decRes.done
    /\ decRes' = [done |-> TRUE, value |-> is_jwt_expired(decArg, now)]
    /\ UNCHANGED <<now, files, extFile, extractor, pc, call, ret, ioFaults,
                   logObs, requests, decArg, page, tool>>

NextDecoder == Decode

SpecDecoder == InitDecoder /\ [][NextDecoder]_vars

----------------------------------------------------------------------------
(* Properties *)

\* the token a handler's return value carries (None when it carries none)
ReturnedToken(value) == IF IsNone(value) THEN None ELSE Get(value, "token")

\* a string that is not empty, not blank and not expired at time t
Usable(token, t) ==
    /\ IsStr(token)
    /\ token.form = "text"
    /\ token.nseg >= 2
    /\ token.mid = "object"
    /\ token.expKind = "int"
    /\ t < token.expVal

\* call c starts in this step
Starts(c) == pc[c] = "idle" /\ pc'[c] # "idle"
\* call c returns in this step
Returns(c) == pc[c] # "done" /\ pc'[c] = "done"

(* C1: every token _get_valid_token returns is non-empty and not expired   *)
(* (now < exp) at the moment it is returned, on the cache-hit path and     *)
(* after a fresh extraction; a call that finds a cached token whose exp    *)
(* has passed starts an automation run instead of returning it.            *)
C1_ReturnedTokenIsFresh ==
    [][\A c \in Callers :
         /\ (Returns(c) /\ call'[c].op = "_get_valid_token" /\ ~IsNone(ret'[c]))
               => Usable(ret'[c].token, now')
         /\ (Starts(c) /\ call'[c].op = "_get_valid_token"
                /\ IsStr(CachedToken(files))
                /\ CachedToken(files).expKind = "int"
                /\ CachedToken(files).expVal <= now)
               => (pc'[c] = "launch" /\ call'[c].runs = 1)]_vars

\* _get_valid_token has returned a token it got from a fresh extraction
C1_Witness ==
    /\ pc[1] = "done"
    /\ call[1].op = "_get_valid_token"
    /\ call[1].runs = 1
    /\ ~IsNone(ret[1])

(* C2: a call of _get_valid_token or extract_auth_token that finds a       *)
(* non-empty, unexpired token in the cache returns that token in the same  *)
(* step and starts no automation run; and a _get_valid_token that returns  *)
(* a token leaves that token in the cache, so the next call finds it.      *)
C2_CacheHitStartsNoRun ==
    [][\A c \in Callers :
         /\ (Starts(c) /\ call'[c].op \in LifecycleOps
                /\ Usable(CachedToken(files), now))
               => /\ pc'[c] = "done"
                  /\ call'[c].runs = 0
                  /\ ReturnedToken(ret'[c]) = CachedToken(files)
                  /\ extractor' = extractor
                  /\ files' = files
         /\ (Returns(c) /\ call'[c].op = "_get_valid_token" /\ ~IsNone(ret'[c]))
               => CachedToken(files') = ret'[c].token]_vars

\* a call has been answered from the cache
C2_Witness ==
    /\ pc[1] = "done"
    /\ call[1].op \in LifecycleOps
    /\ call[1].runs = 0
    /\ Usable(ReturnedToken(ret[1]), now)

(* C3: is_jwt_expired is fail-closed: for a token that is empty, has fewer *)
(* than two segments, has a middle segment that fails base64 or JSON       *)
(* decoding, or whose claims lack exp, it returns true; it returns a       *)
(* boolean for every input (it never raises).                              *)
C3_FailClosed ==
    decRes.done =>
       /\ decRes.value \in BOOLEAN
       /\ (IsStr(decArg)
             /\ (\/ decArg.form = "empty"
                 \/ decArg.nseg < 2
                 \/ decArg.mid \in {"badb64", "badjson"}
                 \/ (decArg.mid = "object" /\ decArg.expKind = "absent")))
            => decRes.value = TRUE

\* the decoder has answered for a token whose middle segment is not base64
C3_Witness ==
    /\ decRes.done
    /\ IsStr(decArg)
    /\ decArg.nseg >= 2
    /\ decArg.mid = "badb64"
    /\ decRes.value = TRUE

(* C4: for a decodable token with an integer exp, is_jwt_expired returns   *)
(* true exactly when now >= exp: true for exp = now - 1 and exp = now,     *)
(* false for exp = now + 3600.                                             *)
C4_ExpiredIffNowAtLeastExp ==
    (decRes.done /\ IsStr(decArg) /\ decArg.nseg >= 2 /\ decArg.mid = "object"
        /\ decArg.expKind = "int")
      => /\ decRes.value = (now >= decArg.expVal)
         /\ decArg.expVal = now - 1 => decRes.value = TRUE
         /\ decArg.expVal = now => decRes.value = TRUE
         /\ decArg.expVal = now + 3600 => decRes.value = FALSE

\* the decoder has answered for a token that expires at this very second
C4_Witness ==
    /\ decRes.done
    /\ IsStr(decArg)
    /\ decArg.mid = "object"
    /\ decArg.expKind = "int"
    /\ decArg.expVal = now
    /\ now > 0

\* what the lifecycle manager finds under token_extraction in its cache
CachedRecord(fs) == GetOr(LoadOrEmpty(fs), "token_extraction", None)

\* a record with success = false and no token
IsErrorRecord(r) ==
    /\ IsDict(r)
    /\ "success" \in DOMAIN r
    /\ r.success = FALSE
    /\ ~Truthy(Get(r, "token"))

\* the run of call c ended in a failure the login code reports itself
RunFailed(c) ==
    /\ call[c].runs = 1
    /\ IsDict(call[c].result)
    /\ "success" \in DOMAIN call[c].result
    /\ ~call[c].result.success

\* the run of call c ended with a token
RunSucceeded(c) ==
    /\ call[c].runs = 1
    /\ IsDict(call[c].result)
    /\ "success" \in DOMAIN call[c].result
    /\ call[c].result.success

(* C5: when the cache file is absent, cannot be read (the load-error       *)
(* sentinel), holds no token_extraction, or holds an ErrorRecord there,    *)
(* the next extract_auth_token or _get_valid_token call starts an          *)
(* automation run.                                                         *)
C5_NoUsableCacheStartsRun ==
    [][\A c \in Callers :
         (Starts(c) /\ call'[c].op \in LifecycleOps
            /\ (\/ files[ManagerFile] = Absent
                \/ "error" \in DOMAIN LoadOrEmpty(files)
                \/ "token_extraction" \notin DOMAIN LoadOrEmpty(files)
                \/ IsErrorRecord(CachedRecord(files))))
           => (pc'[c] = "launch" /\ call'[c].runs = 1 /\ IsNone(ret'[c]))]_vars

\* a call has started a run over an ErrorRecord in the cache
C5_Witness ==
    /\ pc[1] = "launch"
    /\ call[1].runs = 1
    /\ IsErrorRecord(CachedRecord(files))

(* C6: once a call whose automation run failed (a login state failed, or   *)
(* no capture source produced a token) has returned, extract_auth_token's  *)
(* answer has success = false and the lifecycle manager's cache holds an   *)
(* ErrorRecord as token_extraction.                                        *)
C6_FailedRunLeavesErrorRecord ==
    \A c \in Callers :
       (pc[c] = "done" /\ call[c].op \in LifecycleOps /\ RunFailed(c))
         => /\ call[c].op = "extract_auth_token" => ret[c].success = FALSE
            /\ IsErrorRecord(CachedRecord(files))

(* C7: a call triggers at most one automation run; when the run fails, or  *)
(* the token stored by it does not pass the test on reload, the call ends  *)
(* with None and no second run.                                            *)
C7_AtMostOneRunPerCall ==
    /\ [](\A c \in Callers : call[c].runs <= 1)
    /\ [][\A c \in Callers :
            /\ (pc[c] = "teardown" /\ call[c].op = "_get_valid_token")
                 => pc'[c] \in {"teardown", "done"}
            /\ (Returns(c) /\ call'[c].op = "_get_valid_token"
                  /\ call'[c].runs = 1
                  /\ (\/ call[c].result = LaunchRaised
                      \/ RunFailed(c)
                      \/ ~Usable(CachedToken(files'), now')))
                 => IsNone(ret'[c])]_vars

\* a run that produced a token whose reload failed the test: None, one run
C7_Witness ==
    /\ pc[1] = "done"
    /\ call[1].op = "_get_valid_token"
    /\ RunSucceeded(1)
    /\ IsNone(ret[1])

(* C8: when a call ends whose run extracted token T and none of its writes *)
(* failed, loading the cache file yields a document whose token_extraction *)
(* has token = T and success = true.                                       *)
C8_SaveLoadRoundTrip ==
    [][\A c \in Callers :
         (Returns(c) /\ RunSucceeded(c) /\ ioFaults' = ioFaults)
           => LET loaded == load_token_data(files')
              IN  /\ IsDict(loaded)
                  /\ "token_extraction" \in DOMAIN loaded
                  /\ loaded.token_extraction.token = call[c].result.token
                  /\ loaded.token_extraction.success = TRUE]_vars

\* a call has ended whose run extracted a token, now in the cache
C8_Witness ==
    /\ pc[1] = "done"
    /\ RunSucceeded(1)
    /\ CachedToken(files) = call[1].result.token
    /\ CachedRecord(files).success = TRUE

\* the api_calls list of a cache file's document (empty when it has none)
StoredHistory(fs, path) ==
    IF fs[path].st = "json" THEN GetOr(fs[path].value, "api_calls", <<>>) ELSE <<>>

(* C9: the api_calls list stored in the cache file never holds more than   *)
(* 10 entries.                                                             *)
C9_HistoryAtMostTen ==
    \A path \in Paths : Len(StoredHistory(files, path)) <= 10

\* the eleventh response has been logged and ten entries are stored
C9_Witness ==
    /\ requests = 11
    /\ Len(StoredHistory(files, ManagerFile)) = 10

(* C10: when a response is logged over a history h, the stored history is  *)
(* the last 10 entries of h followed by the new entry; with 10 entries in  *)
(* h the oldest one is dropped and the new one is last.                    *)
C10_OldestEntryDropped ==
    \A c \in Callers :
       (pc[c] = "done" /\ logObs[c].logged /\ logObs[c].saved)
         => LET h == logObs[c].loaded
                all == Append(h, ret[c])
                stored == StoredHistory(files, ManagerFile)
            IN  /\ Len(all) <= 10 => stored = all
                /\ Len(all) > 10 => stored = SubSeq(all, Len(all) - 9, Len(all))
                /\ Len(h) = 10 => stored = Append(Tail(h), ret[c])

\* a response has been logged over a history of ten entries
C10_Witness ==
    /\ pc[1] = "done"
    /\ logObs[1].logged
    /\ logObs[1].saved
    /\ Len(logObs[1].loaded) = 10
    /\ Len(StoredHistory(files, ManagerFile)) = 10

\* the facade call c got as far as the HTTP request: its result is an entry
ReachedHttp(c) ==
    /\ call[c].op = "_make_api_call"
    /\ IsDict(ret[c])
    /\ "requested_at" \in DOMAIN ret[c]

(* C11: when a facade call that reached the HTTP request has returned, with *)
(* a response or with a transport exception, its entry is the last one of   *)
(* the api_calls history stored in the cache file.                          *)
C11_EveryCallPersisted ==
    \A c \in Callers :
       (pc[c] = "done" /\ ReachedHttp(c))
         => LET stored == StoredHistory(files, ManagerFile)
            IN  /\ Len(stored) > 0
                /\ stored[Len(stored)] = ret[c]

(* C12: a facade call with a method other than GET, POST, PUT, DELETE       *)
(* starts no automation run, whatever the cache holds, and ends with the    *)
(* unsupported-method error.                                                *)
C12_UnsupportedMethodNoSideEffect ==
    \A c \in Callers :
       (call[c].op = "_make_api_call"
          /\ upper(call[c].method) \notin SupportedMethods)
         => /\ call[c].runs = 0
            /\ pc[c] = "done" => ret[c].error = "Unsupported HTTP method"

(* C13: the outcome of a downstream call never changes the cached token:   *)
(* whatever status the HTTP call returns, and when it raises, the           *)
(* token_extraction of the cache document after the call's logging step is  *)
(* the one before it.  Stated for the facade's remainder applied to every   *)
(* reachable cache, for the calls answered from the cache, and for the      *)
(* calls that log right after their own extraction.                         *)
C13_LoggingKeepsToken ==
    /\ [](\A method \in FacadeMethods,
             http \in HttpOutcomes
                      \cup {[kind |-> "response", status |-> st] :
                               st \in {201, 204, 401, 404, 500}} :
            LET token == TokenList(CachedToken(files), LoadOrEmpty(files))
                after == _make_api_call_after(files, token, DefaultEndpoint, method,
                                              http, requests + 1, "ok")
            IN  CachedRecord(after.files) = CachedRecord(files))
    /\ [][\A c \in Callers :
            /\ (Starts(c) /\ pc'[c] = "done" /\ call'[c].op = "_make_api_call")
                 => CachedRecord(files') = CachedRecord(files)
            /\ (pc[c] = "teardown" /\ Returns(c) /\ logObs'[c].logged)
                 => /\ CachedRecord(files').success = TRUE
                    /\ CachedRecord(files').token = call[c].result.token]_vars

\* a response has been logged and the cache still holds the token record
C13_Witness ==
    /\ pc[1] = "done"
    /\ logObs[1].logged
    /\ IsDict(CachedRecord(files))
    /\ Usable(CachedRecord(files).token, now)
    /\ Len(StoredHistory(files, ManagerFile)) > 1

(* C14: a browser that a run launched is closed by the time the run has    *)
(* ended, on every exit path (a token from any strategy, partial success,   *)
(* no token, a failed login step, an exception): a browser is open only     *)
(* while its run is between the launch and its end.                         *)
C14_BrowserReleased ==
    \A c \in Callers :
       /\ call[c].browser = "open" => pc[c] \in {"navigate"} \cup PageOpen
       /\ (pc[c] \in {"teardown", "done"} /\ call[c].runs = 1
              /\ call[c].result # LaunchRaised)
            => call[c].browser = "closed"
       /\ (pc[c] \in {"teardown", "done"} /\ call[c].result = LaunchRaised)
            => call[c].browser = "none"

\* a run whose login failed after the launch has ended, its browser closed
C14_Witness ==
    /\ pc[1] = "teardown"
    /\ RunFailed(1)
    /\ "error" \in DOMAIN call[1].result
    /\ call[1].result.error = "Sharp login failed"
    /\ call[1].browser = "closed"

(* C15: the token a run returns comes from the first strategy, in the     *)
(* order interception, triggered interception, URL fragment, storage,       *)
(* cookies, that yielded one: a run that ends with a token while the        *)
(* interceptors hold a token returns the intercepted token, not one from    *)
(* the URL fragment, the storage or the cookies.                            *)
C15_InterceptedTokenWins ==
    \A c \in Callers :
       (pc[c] = "teardown" /\ RunSucceeded(c)
          /\ Truthy(extractor.intercepted_token))
         => call[c].result.token = extractor.intercepted_token

\* the run of call c ended as a partial success: no token, a code in the URL
RunPartial(c) ==
    /\ call[c].runs = 1
    /\ IsDict(call[c].result)
    /\ "authorization_code" \in DOMAIN call[c].result

(* C16: when the login succeeded, no strategy yielded a token and the URL   *)
(* carries an authorization code, the result extract_auth_token hands to    *)
(* its caller has success = false and carries the authorization code, which *)
(* tells it from the result of a run that found nothing at all.             *)
C16_PartialSuccessReported ==
    \A c \in Callers :
       (pc[c] = "done" /\ call[c].op = "extract_auth_token" /\ RunPartial(c))
         => /\ ret[c].success = FALSE
            /\ "authorization_code" \in DOMAIN ret[c]
            /\ ret[c] # run_playwright_token_extraction(
                           run(files, extFile,
                               _create_failure_response("No token found", now),
                               200, now, "ok"),
                           now, "ok").value

----------------------------------------------------------------------------
(* Concurrent tool calls: the event loop interleaves the coroutines of the *)
(* callers at their suspension points.  Every write succeeds and the clock  *)
(* stands still.                                                            *)

InitConcurrent == InitWith(0)

NextConcurrent ==
    \/ \E c \in AllCallers : Call(c, "_get_valid_token", "none")
    \/ \E c \in AllCallers : Launch(c)
    \/ \E c \in AllCallers : Navigate(c)
    \/ \E c \in AllCallers : Auth0Login(c)
    \/ \E c \in AllCallers : SharpStartSelection(c)
    \/ \E c \in AllCallers : SharpLogin(c)
    \/ \E c \in AllCallers : WaitForDashboard(c)
    \/ \E c \in AllCallers : Priority1(c)
    \/ \E c \in AllCallers : TriggerApiCalls(c)
    \/ \E c \in AllCallers : CaptureRest(c)
    \/ \E c \in AllCallers : Teardown(c)
    \/ \E c \in AllCallers : Return(c)

SpecConcurrent == InitConcurrent /\ [][NextConcurrent]_vars

\* the calls whose automation run is in flight
InFlight == {c \in AllCallers : pc[c] \in {"launch", "navigate"} \cup PageOpen}

(* C17: at most one automation run is in flight at any time: callers that   *)
(* find the cache invalid at the same time do not run two browser sessions  *)
(* at once.                                                                 *)
C17_OneRunInFlight ==
    /\ Cardinality(InFlight) <= 1
    /\ Cardinality({c \in AllCallers : call[c].browser = "open"}) <= 1

(* C18: a reader of a cache file never finds a half-written document:     *)
(* every file is absent or holds the complete document of a save, and       *)
(* load_token_data never answers with the load-error sentinel.              *)
C18_NoHalfWrittenDocument ==
    /\ \A path \in Paths : files[path].st \in {"absent", "json"}
    /\ LET loaded == load_token_data(files)
       IN  IsNone(loaded) \/ "error" \notin DOMAIN loaded

(* C19: a corrupt cache file crashes no caller: load_token_data answers a   *)
(* file that is not JSON with the sentinel error object instead of raising, *)
(* and an extract_auth_token or _get_valid_token that finds such a file     *)
(* takes it to hold no token and starts an extraction.                      *)
C19_CorruptCacheHandled ==
    /\ [](files[ManagerFile] = Truncated
            => LET loaded == load_token_data(files)
               IN  /\ IsDict(loaded)
                   /\ "error" \in DOMAIN loaded
                   /\ "raised" \notin DOMAIN loaded
                   /\ IsNone(CachedToken(files)))
    /\ [][\A c \in Callers :
            (Starts(c) /\ call'[c].op \in LifecycleOps
               /\ files[ManagerFile] = Truncated)
              => (pc'[c] = "launch" /\ call'[c].runs = 1)]_vars

\* a call has started an extraction over a cache file that is not JSON
C19_Witness ==
    /\ pc[1] = "launch"
    /\ call[1].runs = 1
    /\ files[ManagerFile] = Truncated

\* a result value: a dict with a boolean success, not a raised exception
IsResult(v) ==
    /\ IsDict(v)
    /\ "raised" \notin DOMAIN v
    /\ "success" \in DOMAIN v
    /\ v.success \in BOOLEAN

(* C20: every outcome of extract_auth_token and of make_api_request is a    *)
(* result with a boolean success: a failed login, a failed launch, a failed *)
(* write of a cache file, an undecodable token and a transport failure all  *)
(* end in such a result, none leaves as an exception.  The facade's         *)
(* remainder is applied to every reachable cache, with and without a token, *)
(* for every method, HTTP outcome and write outcome.                        *)
C20_ResultsCarrySuccess ==
    /\ \A c \in Callers :
          (pc[c] = "done" /\ call[c].op = "extract_auth_token") => IsResult(ret[c])
    /\ \A token \in {None, TokenList(CachedToken(files), LoadOrEmpty(files))},
          method \in FacadeMethods, o \in WriteOutcomes,
          http \in HttpOutcomes
                   \cup {[kind |-> "response", status |-> st] : st \in {401, 500}} :
         IsResult(_make_api_call_after(files, token, DefaultEndpoint, method, http,
                                       requests + 1, o).value)

\* extract_auth_token has answered a run whose browser launch raised
C20_Witness ==
    /\ pc[1] = "done"
    /\ call[1].op = "extract_auth_token"
    /\ call[1].result = LaunchRaised
    /\ IsResult(ret[1])
    /\ ret[1].success = FALSE

----------------------------------------------------------------------------
\* status codes a downstream response can carry
ResponseStatuses == {200, 201, 202, 204, 301, 400, 401, 404, 500}

(* C21: for every HTTP response the facade receives, the entry it logs and *)
(* returns has success = TRUE exactly when the status code is 200, 201 or  *)
(* 204, and FALSE for every other code.  Stated for _handle_response       *)
(* applied to every reachable cache and every status code, and for the     *)
(* entries the calls of the scenario returned.                             *)
C21_SuccessIffStatusOk ==
    /\ \A st \in ResponseStatuses, method \in FacadeMethods :
         LET handled == _handle_response(files, st, DefaultEndpoint, method,
                                         requests + 1, "ok")
             history == StoredHistory(handled.files, ManagerFile)
         IN  /\ handled.value.status_code = st
             /\ handled.value.success = (st \in {200, 201, 204})
             /\ handled.obs.entry = handled.value
             /\ Len(history) > 0
             /\ history[Len(history)] = handled.value
    /\ \A c \in Callers :
         (pc[c] = "done" /\ logObs[c].logged)
            => /\ ret[c] = logObs[c].entry
               /\ ret[c].success = (ret[c].status_code \in {200, 201, 204})

\* a call has logged and returned the entry of a 200 response
C21_Witness ==
    /\ pc[1] = "done"
    /\ logObs[1].logged
    /\ ret[1].status_code = 200
    /\ ret[1].success = TRUE
    /\ StoredHistory(files, ManagerFile)[Len(StoredHistory(files, ManagerFile))]
          = ret[1]

----------------------------------------------------------------------------
(* The automation step by step: login_and_extract_token with every         *)
(* selector attempt, trigger action and network event as a step of its own *)

\* how many selectors the lists of _init_selectors hold
selectors ==
    [auth0_email |-> 1, auth0_email_fallback |-> 7, auth0_continue |-> 6,
     sharp_start_button |-> 1, sharp_start_fallback |-> 8,
     sharp_username |-> 1, sharp_password |-> 1, sharp_submit |-> 1,
     api_triggers |-> 12]
\* the deep links _trigger_api_calls navigates to
NavigationUrls == 3

(* what wait_for_selector, fill and input_value do for one selector: the   *)
(* value read back equals the intended one, differs from it, or one of the *)
(* three calls raises                                                      *)
FillOutcomes == {"verified", "mismatch", "raises"}
(* what a click attempt does: the element is there, visible and clicked;   *)
(* there is no such visible element; a call raises                         *)
ClickOutcomes == {"clicked", "absent", "raises"}
\* wait_for_selector on the downstream login form
FormOutcomes == {"visible", "timeout"}
(* wait_for_url: the redirect arrived in time, or the wait timed out and   *)
(* the URL read 50 seconds later is still the identity provider's or not   *)
DashboardOutcomes == {"arrived", "timeout_auth0", "timeout_elsewhere"}
\* page.goto and page.reload: completed, or timed out
LoadOutcomes == {"done", "timeout"}
\* where a request or response comes from: the downstream API or not
Urls == {"api_url", "other_url"}

\* mutant: a fill that did not raise counts as done, verified or not
_fill_element_unverified(outcome) == outcome # "raises"

\* _fill_element: True only from `if filled_value == value`
_fill_element(outcome) == outcome = "verified"

\* _try_selectors, action "fill": True only from `if filled_value == value`
_try_selectors_fill(outcome) == outcome = "verified"

\* _try_selectors, action "click": True after element.click()
_try_selectors_click(outcome) == outcome = "clicked"

\* _click_element: True after page.click, False from the except
_click_element(outcome) == outcome = "clicked"

\* _wait_for_dashboard: False only when the wait timed out on auth0.com
_wait_for_dashboard(outcome) == outcome # "timeout_auth0"

\* mutant: the loop stays on the selector that failed
same_selector(i) == i

\* `for selector in selectors`: the next entry of the list
next_selector(i) == i + 1

\* mutant: the provider selection is left out
next_handler_skip(step) ==
    CASE step = "auth0_login" -> "sharp_login"
      [] step = "sharp_start" -> "sharp_login"
      [] step = "sharp_login" -> "dashboard"
      [] step = "dashboard" -> "extract"

\* login_and_extract_token: the handler that follows one that returned True
next_handler(step) ==
    CASE step = "auth0_login" -> "sharp_start"
      [] step = "sharp_start" -> "sharp_login"
      [] step = "sharp_login" -> "dashboard"
      [] step = "dashboard" -> "extract"

\* handle_request: `if self.api_url in request.url`
request_captures(url) == url = "api_url"

\* handle_response: the URL test guards only a log line, not the capture
response_captures(url) == TRUE

\* the positions of _trigger_api_calls
TriggerPcs == {"trigger", "trigger_nav", "trigger_reload"}
\* the positions at which the page exists and its listeners are attached
PageOpenLogin ==
    {"auth0_login", "auth0_email_fallback", "auth0_continue", "sharp_start",
     "sharp_start_fallback", "sharp_login", "sharp_username", "sharp_password",
     "sharp_submit", "dashboard", "extract", "rest"} \cup TriggerPcs

\* the coroutine goes on at next; the page has become pg
Goes(c, next, pg) ==
    /\ pc' = [pc EXCEPT ![c] = next]
    /\ page' = pg
    /\ UNCHANGED <<now, files, extFile, extractor, call, ret, ioFaults, logObs,
                   requests, decArg, decRes, tool>>

\* the run ends with token_result, through the finally; the page was pg
Ends(c, token_result, pg) ==
    /\ pc' = [pc EXCEPT ![c] = "teardown"]
    /\ call' = [call EXCEPT ![c].result = token_result,
                            ![c].browser = finally_close(@)]
    /\ page' = pg
    /\ UNCHANGED <<now, files, extFile, extractor, ret, ioFaults, logObs,
                   requests, decArg, decRes, tool>>

\* the page after one more operation; the loop index is back at 1
Did(op, key, sel, outcome) ==
    [page EXCEPT !.last = Step(op, key, sel, outcome), !.sel = 1]

\* the page after a failed attempt inside a loop: on to the next entry
Retry(op, key, sel, outcome) ==
    [page EXCEPT !.last = Step(op, key, sel, outcome), !.sel = next_selector(sel)]

\* _handle_auth0_login: the email field by its primary selector
FillAuth0Email(c) ==
    /\ pc[c] = "auth0_login"
    /\ \E o \in FillOutcomes :
         IF _fill_element(o)
         THEN Goes(c, "auth0_continue", Did("fill", "auth0_email", 1, o))
         ELSE Goes(c, "auth0_email_fallback", Did("fill", "auth0_email", 1, o))

\* _try_selectors(auth0_email_fallback, "fill"): one selector of the list
FillAuth0EmailFallback(c) ==
    /\ pc[c] = "auth0_email_fallback"
    /\ \E o \in FillOutcomes :
         LET i == page.sel
         IN  IF _try_selectors_fill(o)
             THEN Goes(c, "auth0_continue", Did("fill", "auth0_email_fallback", i, o))
             ELSE IF i < selectors.auth0_email_fallback
             THEN Goes(c, "auth0_email_fallback",
                       Retry("fill", "auth0_email_fallback", i, o))
             ELSE Ends(c, LoginExceptionResponse("Auth0 login failed", now),
                       Did("fill", "auth0_email_fallback", i, o))

(* _try_selectors(auth0_continue, "click"): one selector of the list.  An  *)
(* exhausted list logs "No continue button found, proceeding..." and the   *)
(* handler returns True all the same.                                      *)
ClickAuth0Continue(c) ==
    /\ pc[c] = "auth0_continue"
    /\ \E o \in ClickOutcomes :
         LET i == page.sel
         IN  IF _try_selectors_click(o) \/ i >= selectors.auth0_continue
             THEN Goes(c, next_handler("auth0_login"),
                       Did("click", "auth0_continue", i, o))
             ELSE Goes(c, "auth0_continue", Retry("click", "auth0_continue", i, o))

\* _handle_sharp_start_selection: the exact provider button
ClickSharpStart(c) ==
    /\ pc[c] = "sharp_start"
    /\ \E o \in ClickOutcomes :
         IF o = "clicked"
         THEN Goes(c, next_handler("sharp_start"),
                   Did("click", "sharp_start_button", 1, o))
         ELSE Goes(c, "sharp_start_fallback",
                   Did("click", "sharp_start_button", 1, o))

\* _handle_sharp_start_selection: one selector of sharp_start_fallback
ClickSharpStartFallback(c) ==
    /\ pc[c] = "sharp_start_fallback"
    /\ \E o \in ClickOutcomes :
         LET i == page.sel
         IN  IF o = "clicked"
             THEN Goes(c, next_handler("sharp_start"),
                       Did("click", "sharp_start_fallback", i, o))
             ELSE IF i < selectors.sharp_start_fallback
             THEN Goes(c, "sharp_start_fallback",
                       Retry("click", "sharp_start_fallback", i, o))
             ELSE Ends(c, LoginExceptionResponse("Sharp-Start selection failed", now),
                       Did("click", "sharp_start_fallback", i, o))

\* _handle_sharp_login: wait for the form
WaitSharpForm(c) ==
    /\ pc[c] = "sharp_login"
    /\ \E o \in FormOutcomes :
         IF o = "visible"
         THEN Goes(c, "sharp_username", Did("wait", "sharp_username", 1, o))
         ELSE Ends(c, LoginExceptionResponse("Sharp login failed", now),
                   Did("wait", "sharp_username", 1, o))

\* _handle_sharp_login: the username
FillSharpUsername(c) ==
    /\ pc[c] = "sharp_username"
    /\ \E o \in FillOutcomes :
         IF _fill_element(o)
         THEN Goes(c, "sharp_password", Did("fill", "sharp_username", 1, o))
         ELSE Ends(c, LoginExceptionResponse("Sharp login failed", now),
                   Did("fill", "sharp_username", 1, o))

\* _handle_sharp_login: the password
FillSharpPassword(c) ==
    /\ pc[c] = "sharp_password"
    /\ \E o \in FillOutcomes :
         IF _fill_element(o)
         THEN Goes(c, "sharp_submit", Did("fill", "sharp_password", 1, o))
         ELSE Ends(c, LoginExceptionResponse("Sharp login failed", now),
                   Did("fill", "sharp_password", 1, o))

\* _handle_sharp_login: the submit button
ClickSharpSubmit(c) ==
    /\ pc[c] = "sharp_submit"
    /\ \E o \in ClickOutcomes :
         IF _click_element(o)
         THEN Goes(c, next_handler("sharp_login"),
                   Did("click", "sharp_submit", 1, o))
         ELSE Ends(c, LoginExceptionResponse("Sharp login failed", now),
                   Did("click", "sharp_submit", 1, o))

\* _wait_for_dashboard
WaitDashboardUrl(c) ==
    /\ pc[c] = "dashboard"
    /\ \E o \in DashboardOutcomes :
         IF _wait_for_dashboard(o)
         THEN Goes(c, next_handler("dashboard"), Did("wait", "dashboard", 1, o))
         ELSE Ends(c, LoginExceptionResponse("Dashboard redirect failed", now),
                   Did("wait", "dashboard", 1, o))

\* _trigger_api_calls returned True
TriggerFound(c, pg) ==
    Ends(c, _create_success_response(extractor.intercepted_token,
                                     "api_call_triggered", now), pg)

(* _trigger_api_calls, one selector of api_triggers: the first visible     *)
(* element is clicked and, after the wait, intercepted_token is looked at; *)
(* with no visible element, or when a call raises, the loop goes on        *)
(* without the look                                                        *)
TriggerClick(c) ==
    /\ pc[c] = "trigger"
    /\ \E o \in ClickOutcomes :
         LET i == page.sel
         IN  IF o = "clicked" /\ Truthy(extractor.intercepted_token)
             THEN TriggerFound(c, Did("click", "api_triggers", i, o))
             ELSE IF i < selectors.api_triggers
             THEN Goes(c, "trigger", Retry("click", "api_triggers", i, o))
             ELSE Goes(c, "trigger_nav", Did("click", "api_triggers", i, o))

(* _trigger_api_calls, one deep link: goto, wait, look at                  *)
(* intercepted_token; a goto that raises skips the look                    *)
TriggerNavigate(c) ==
    /\ pc[c] = "trigger_nav"
    /\ \E o \in LoadOutcomes :
         LET i == page.sel
         IN  IF o = "done" /\ Truthy(extractor.intercepted_token)
             THEN TriggerFound(c, Did("goto", "navigation_urls", i, o))
             ELSE IF i < NavigationUrls
             THEN Goes(c, "trigger_nav", Retry("goto", "navigation_urls", i, o))
             ELSE Goes(c, "trigger_reload", Did("goto", "navigation_urls", i, o))

\* _trigger_api_calls: the reload, then `return False`
TriggerReload(c) ==
    /\ pc[c] = "trigger_reload"
    /\ \E o \in LoadOutcomes :
         IF o = "done" /\ Truthy(extractor.intercepted_token)
         THEN TriggerFound(c, Did("reload", "page", 1, o))
         ELSE Goes(c, "rest", Did("reload", "page", 1, o))

(* handle_request: the page of call c sends a request carrying             *)
(* Authorization: Bearer token to url                                      *)
handle_request(c, token, url) ==
    /\ pc[c] \in PageOpenLogin
    /\ request_captures(url)
    /\ extractor.intercepted_token # token \/ page.token_url # url \/ ~page.heard
    /\ extractor' = [extractor EXCEPT !.intercepted_token = token]
    /\ page' = [page EXCEPT !.token_url = url, !.heard = TRUE]
    /\ UNCHANGED <<now, files, extFile, pc, call, ret, ioFaults, logObs,
                   requests, decArg, decRes, tool>>

(* handle_response: the page of call c receives a response carrying        *)
(* Authorization: Bearer token from url                                    *)
handle_response(c, token, url) ==
    /\ pc[c] \in PageOpenLogin
    /\ response_captures(url)
    /\ ~Truthy(extractor.intercepted_token)
    /\ extractor' = [extractor EXCEPT !.intercepted_token = token]
    /\ page' = [page EXCEPT !.token_url = url, !.heard = TRUE]
    /\ UNCHANGED <<now, files, extFile, pc, call, ret, ioFaults, logObs,
                   requests, decArg, decRes, tool>>

\* the steps of one call's run, from the launch to the end of the browser
RunStep(c) ==
    \/ Launch(c)
    \/ Navigate(c)
    \/ FillAuth0Email(c)
    \/ FillAuth0EmailFallback(c)
    \/ ClickAuth0Continue(c)
    \/ ClickSharpStart(c)
    \/ ClickSharpStartFallback(c)
    \/ WaitSharpForm(c)
    \/ FillSharpUsername(c)
    \/ FillSharpPassword(c)
    \/ ClickSharpSubmit(c)
    \/ WaitDashboardUrl(c)
    \/ Priority1(c)
    \/ TriggerClick(c)
    \/ TriggerNavigate(c)
    \/ TriggerReload(c)
    \/ CaptureRest(c)

InitLogin == InitWith(0)

\* _get_valid_token called again and again, each run taken step by step
NextLogin ==
    \/ Call(1, "_get_valid_token", "none")
    \/ Launch(1)
    \/ Navigate(1)
    \/ FillAuth0Email(1)
    \/ FillAuth0EmailFallback(1)
    \/ ClickAuth0Continue(1)
    \/ ClickSharpStart(1)
    \/ ClickSharpStartFallback(1)
    \/ WaitSharpForm(1)
    \/ FillSharpUsername(1)
    \/ FillSharpPassword(1)
    \/ ClickSharpSubmit(1)
    \/ WaitDashboardUrl(1)
    \/ Priority1(1)
    \/ TriggerClick(1)
    \/ TriggerNavigate(1)
    \/ TriggerReload(1)
    \/ CaptureRest(1)
    \/ \E token \in EnvTokens, url \in Urls : handle_request(1, token, url)
    \/ \E token \in EnvTokens, url \in Urls : handle_response(1, token, url)
    \/ Teardown(1)
    \/ Return(1)

SpecLogin == InitLogin /\ [][NextLogin]_vars

(* weak fairness of Teardown(c), which can be taken exactly when the call   *)
(* is at "teardown": the probe has a timeout of 30 seconds, the file       *)
(* operations and the token test do not wait for anything                  *)
TeardownFair(c) == []<>(pc[c] # "teardown") \/ []<><<Teardown(c)>>_vars

(* every browser wait, navigation and click completes or times out: a run  *)
(* that can take its next step takes it, and so does the code after it     *)
SpecLoginLive == SpecLogin /\ WF_vars(RunStep(1)) /\ TeardownFair(1)

----------------------------------------------------------------------------
(* Properties of the automation taken step by step *)

\* call c takes a step of its run (the network events leave pc and sel alone)
Taken(c) == pc'[c] # pc[c] \/ page'.sel # page.sel

\* the positions of the login handlers
LoginPcs ==
    {"auth0_login", "auth0_email_fallback", "auth0_continue", "sharp_start",
     "sharp_start_fallback", "sharp_login", "sharp_username", "sharp_password",
     "sharp_submit", "dashboard"}
\* the positions of the capture chain
CapturePcs == {"extract", "rest"} \cup TriggerPcs

\* the operation did what it was for
Succeeded(step) == step.outcome \in {"verified", "clicked", "visible", "arrived"}

\* the selector lists after which a login state has nothing left to try
FinalLists ==
    {"auth0_email_fallback", "auth0_continue", "sharp_start_fallback",
     "sharp_username", "sharp_password", "sharp_submit"}

\* step was the last attempt a login state had, and it failed
Exhausted(step) ==
    /\ step.key \in FinalLists
    /\ step.sel = selectors[step.key]
    /\ ~Succeeded(step)

(* C22: a login state whose primary selector and all fallback selectors    *)
(* fail aborts the whole run with a failure, and no later state's action   *)
(* is executed: the step that fails on the last selector a login state can *)
(* try (the email fill, the continue click, the provider selection, the    *)
(* credential fills and the submit) ends the run with success = FALSE, as  *)
(* does a dashboard wait that failed.                                      *)
C22_StepFailureAborts ==
    [][\A c \in Callers :
         (/\ Taken(c)
          /\ pc[c] \in LoginPcs
          /\ \/ Exhausted(page'.last)
             \/ pc[c] = "sharp_login" /\ ~Succeeded(page'.last)
             \/ pc[c] = "dashboard" /\ page'.last.outcome = "timeout_auth0")
            => /\ pc'[c] = "teardown"
               /\ call'[c].result.success = FALSE]_vars

\* the login state of the specification's state machine a position lies in
LoginState(p) ==
    CASE p \in {"launch", "navigate", "auth0_login", "auth0_email_fallback"} -> 0
      [] p = "auth0_continue" -> 1
      [] p \in {"sharp_start", "sharp_start_fallback"} -> 2
      [] p \in {"sharp_login", "sharp_username", "sharp_password",
                "sharp_submit"} -> 3
      [] p = "dashboard" -> 4
      [] p \in CapturePcs -> 5
      [] p = "teardown" -> 6

\* the order of the positions in the code of a run
PcOrder ==
    <<"launch", "navigate", "auth0_login", "auth0_email_fallback",
      "auth0_continue", "sharp_start", "sharp_start_fallback", "sharp_login",
      "sharp_username", "sharp_password", "sharp_submit", "dashboard",
      "extract", "trigger", "trigger_nav", "trigger_reload", "rest",
      "teardown">>
PcRank(p) == CHOOSE i \in 1..Len(PcOrder) : PcOrder[i] = p
RunPcs == {PcOrder[i] : i \in 1..(Len(PcOrder) - 1)}

(* C23: within one run the login states are entered only in the order      *)
(* Init (0), IdentityProviderFormFilled (1), ProviderRedirectTriggered (2), *)
(* FederatedProviderSelected (3), DownstreamCredentialsSubmitted (4),       *)
(* DashboardReached (5), then Success or Failed (6): a step of a run stays  *)
(* in its login state, enters the next one or ends the run; it never goes   *)
(* back to an earlier position, so no handler runs twice; a capture         *)
(* strategy is entered only from the dashboard wait or from another capture *)
(* strategy, and only a capture strategy ends a run with a token.           *)
C23_LoginStatesInOrder ==
    [][\A c \in Callers :
         (pc[c] \in RunPcs /\ Taken(c))
            => /\ \/ LoginState(pc'[c]) = LoginState(pc[c])
                  \/ LoginState(pc'[c]) = LoginState(pc[c]) + 1
                  \/ pc'[c] = "teardown"
               /\ \/ PcRank(pc'[c]) > PcRank(pc[c])
                  \/ pc'[c] = pc[c] /\ page'.sel = page.sel + 1
               /\ pc'[c] \in CapturePcs => pc[c] \in CapturePcs \cup {"dashboard"}
               /\ (pc'[c] = "teardown" /\ call'[c].result # LaunchRaised
                     /\ call'[c].result.success)
                    => pc[c] \in CapturePcs]_vars

\* a run went through every login state and all of the trigger actions
C23_Witness ==
    /\ pc[1] = "rest"
    /\ page.last = Step("reload", "page", 1, "done")

(* C24: a run whose dashboard-redirect wait exceeds its timeout terminates *)
(* as a failure: the step of the wait that timed out ends the run with     *)
(* success = FALSE and the browser closed, and does not go on to the token *)
(* capture.                                                                *)
C24_DashboardTimeoutFails ==
    [][\A c \in Callers :
         (/\ pc[c] = "dashboard"
          /\ Taken(c)
          /\ page'.last.outcome \in {"timeout_auth0", "timeout_elsewhere"})
            => /\ pc'[c] = "teardown"
               /\ call'[c].result.success = FALSE
               /\ call'[c].browser = "closed"]_vars

\* the positions that fill a field, and the lists that have a fallback list
FillPcs == {"auth0_login", "auth0_email_fallback", "sharp_username",
            "sharp_password"}

(* C25: a fill step advances the login state only through a selector whose *)
(* post-fill value was read back equal to the intended value; a fallback   *)
(* selector is tried only right after the failure of the primary selector  *)
(* (the first of the list) or of the fallback before it (the others); the  *)
(* first selector that verifies ends the step: the step after it is not a  *)
(* fill of the same field.                                                 *)
C25_FillAdvancesOnlyVerified ==
    [][\A c \in Callers :
         (pc[c] \in FillPcs /\ Taken(c))
            => LET attempt == page'.last
                   before == page.last
               IN  /\ attempt.op = "fill"
                   /\ pc'[c] \in {"auth0_continue", "sharp_password", "sharp_submit"}
                        <=> attempt.outcome = "verified"
                   /\ attempt.outcome = "verified" => pc'[c] # pc[c]
                   /\ pc[c] = "auth0_email_fallback"
                        => /\ attempt.key = "auth0_email_fallback"
                           /\ before.op = "fill"
                           /\ before.outcome # "verified"
                           /\ IF attempt.sel = 1
                              THEN before.key = "auth0_email"
                              ELSE /\ before.key = "auth0_email_fallback"
                                   /\ before.sel = attempt.sel - 1]_vars

\* the third fallback selector filled the email field after the others failed
C25_Witness ==
    /\ pc[1] = "auth0_continue"
    /\ page.last = Step("fill", "auth0_email_fallback", 3, "verified")

(* C26: network interception stores a bearer token only from a request     *)
(* addressed to, or a response returned by, the downstream API URL: the    *)
(* token the extractor holds was never taken from traffic of another URL.  *)
C26_TokenOnlyFromApiUrl ==
    (~IsNone(extractor) /\ Truthy(extractor.intercepted_token))
        => page.token_url = "api_url"

\* the step performed a trigger action: a click, a navigation, the reload
Triggered(step) == step.outcome \in {"clicked", "done", "timeout"}

(* C27: triggered interception looks for an intercepted token after each   *)
(* trigger action and stops at the first action after which a token is     *)
(* present: a step of _trigger_api_calls that performed a click, a         *)
(* navigation or the reload and leaves a token stored ends the run with    *)
(* that token, so no further trigger action follows.                       *)
C27_TriggerStopsAtToken ==
    [][\A c \in Callers :
         (/\ pc[c] \in TriggerPcs
          /\ Taken(c)
          /\ Triggered(page'.last)
          /\ Truthy(extractor'.intercepted_token))
            => /\ pc'[c] = "teardown"
               /\ call'[c].result.success
               /\ call'[c].result.token = extractor'.intercepted_token]_vars

----------------------------------------------------------------------------
\* the keys of the document the manager writes for a successful extraction
ManagerKeys == {"token_extraction", "api_test", "saved_at"}

----------------------------------------------------------------------------
\* a record with success = true and a token
IsTokenRecord(r) ==
    /\ IsDict(r)
    /\ "success" \in DOMAIN r
    /\ r.success = TRUE
    /\ Truthy(Get(r, "token"))

(* C29: every document written to the cache file keeps the canonical       *)
(* shape: whenever the file holds a JSON document, that document is an     *)
(* object whose token_extraction key holds a TokenRecord or an             *)
(* ErrorRecord, also after the write made for an unexpected exception of   *)
(* the automation.                                                         *)
C29_CanonicalShape ==
    files[ManagerFile].st = "json"
        => LET doc == files[ManagerFile].value
           IN  /\ IsDict(doc)
               /\ "token_extraction" \in DOMAIN doc
               /\ \/ IsTokenRecord(doc.token_extraction)
                  \/ IsErrorRecord(doc.token_extraction)

----------------------------------------------------------------------------
(* C30: every call to _get_valid_token eventually returns, with a token or *)
(* with a failure, given that each browser wait, navigation and click      *)
(* completes or times out: a call that has started a run reaches its       *)
(* return, whatever the selectors, the trigger actions and the capture     *)
(* chain do and however much traffic the listeners see on the way.         *)
C30_CallReturns ==
    \A c \in Callers : (pc[c] \in RunPcs \cup {"teardown"}) ~> (pc[c] = "done")

(* a call returned after a run that tried every trigger action and found   *)
(* no token                                                                *)
C30_Witness ==
    /\ pc[1] = "done"
    /\ call[1].runs = 1
    /\ call[1].browser = "closed"
    /\ page.last = Step("reload", "page", 1, "timeout")
    /\ ret[1] = None

----------------------------------------------------------------------------
\* the sources under which a run reports the token its listeners stored
InterceptSources ==
    {"api_request_interception", "api_call_triggered", "intercepted_fallback"}

(* C31: a token that a run reports as intercepted was taken from that      *)
(* run's own browser session: a run ends with a token under one of the     *)
(* interception sources only if the listeners attached to its own page     *)
(* stored a token; a token left over from an earlier run of the shared     *)
(* extractor is never returned by a run that intercepted nothing.          *)
C31_TokenFromOwnSession ==
    [][\A c \in Callers :
         (/\ pc[c] \in CapturePcs
          /\ pc'[c] = "teardown"
          /\ call'[c].result.success
          /\ call'[c].result.source \in InterceptSources)
            => page.heard]_vars

----------------------------------------------------------------------------
(* C32: once the cache holds a valid, unexpired token, no later write      *)
(* replaces it with an error record or with a document lacking a token     *)
(* while that token is still unexpired: a step that starts with a usable   *)
(* token in the manager's file, still unexpired after the step, leaves a   *)
(* usable token there, also when another caller's run fails after the run  *)
(* that stored the token.                                                  *)
C32_ValidTokenNotClobbered ==
    [][Usable(CachedToken(files), now')
          => Usable(CachedToken(files'), now')]_vars

----------------------------------------------------------------------------
(* C33: extract_auth_token returns success = TRUE only with a token that   *)
(* is non-empty and not expired at the time it returns, on the cache-hit   *)
(* path and after a fresh extraction, and a step that writes a successful  *)
(* token_extraction to the manager's file writes such a token.             *)
C33_ExtractReturnsUsableToken ==
    [][\A c \in Callers :
         /\ (Returns(c) /\ call'[c].op = "extract_auth_token" /\ ret'[c].success)
               => Usable(ret'[c].token, now')
         /\ (pc[c] = "teardown" /\ files'[ManagerFile] # files[ManagerFile]
               /\ IsTokenRecord(CachedRecord(files')))
               => Usable(CachedToken(files'), now')]_vars

----------------------------------------------------------------------------
(* C36: extract_auth_token reports success = TRUE for a freshly extracted  *)
(* token only if that token was written to the manager's cache file: when  *)
(* the call returns success after a run, the file holds a successful       *)
(* token_extraction with the token returned.                               *)
C36_SuccessMeansSaved ==
    [][\A c \in Callers :
         (/\ pc[c] = "teardown"
          /\ Returns(c)
          /\ call'[c].op = "extract_auth_token"
          /\ ret'[c].success)
            => /\ IsTokenRecord(CachedRecord(files'))
               /\ CachedToken(files') = ret'[c].token]_vars

----------------------------------------------------------------------------
(* Concurrent facade calls: two callers of _make_api_call, each making one *)
(* call, interleaved at the suspension points of their automation runs.    *)
(* Writes may fail and the clock stands still.                             *)

InitFacadeConcurrent == InitWith(MaxIOFaults)

NextFacadeConcurrent ==
    \/ \E c \in AllCallers : Call(c, "_make_api_call", "get")
    \/ \E c \in AllCallers : Launch(c)
    \/ \E c \in AllCallers : Navigate(c)
    \/ \E c \in AllCallers : Auth0Login(c)
    \/ \E c \in AllCallers : SharpStartSelection(c)
    \/ \E c \in AllCallers : SharpLogin(c)
    \/ \E c \in AllCallers : WaitForDashboard(c)
    \/ \E c \in AllCallers : Priority1(c)
    \/ \E c \in AllCallers : TriggerApiCalls(c)
    \/ \E c \in AllCallers : CaptureRest(c)
    \/ \E c \in AllCallers : Teardown(c)

SpecFacadeConcurrent == InitFacadeConcurrent /\ [][NextFacadeConcurrent]_vars

(* does the step in which call c logs a response write the manager's file *)
(* before the logging?  Only a step that ends a run can: the run gave a    *)
(* token, which the extractor saves to its own file (that save succeeded,  *)
(* or run() would have raised) and the manager to the cache file.  With   *)
(* the log saved, a write that failed in the step was the manager's.       *)
RunWrites(c) ==
    /\ pc[c] = "teardown"
    /\ \/ extFile = ManagerFile
       \/ ioFaults' = ioFaults

(* C34: a facade call's logging step, when no extraction writes the file   *)
(* in that step, stores the history found in the file followed by the      *)
(* call's own entry (trimmed to the last 10): it works on the file as the  *)
(* other call's logging step left it, so that after two concurrent calls   *)
(* that both got a response the history holds both entries.                *)
C34_NoLostUpdate ==
    [][\A c \in AllCallers :
         (/\ Returns(c)
          /\ logObs'[c].logged
          /\ logObs'[c].saved
          /\ ~RunWrites(c))
           => /\ logObs'[c].loaded = StoredHistory(files, ManagerFile)
              /\ StoredHistory(files', ManagerFile)
                   = LastN(Append(StoredHistory(files, ManagerFile), ret'[c]),
                           HistoryLimit)
              /\ \A d \in AllCallers \ {c} :
                   (/\ logObs[d].logged
                    /\ \E i \in DOMAIN StoredHistory(files, ManagerFile) :
                          StoredHistory(files, ManagerFile)[i] = ret[d])
                     => \E i \in DOMAIN StoredHistory(files', ManagerFile) :
                          StoredHistory(files', ManagerFile)[i] = ret[d]]_vars

(* both calls started an automation run, so they were in progress together; *)
(* both got a response, and the stored history holds both entries           *)
C34_Witness ==
    /\ \A c \in AllCallers :
          /\ pc[c] = "done"
          /\ call[c].runs = 1
          /\ logObs[c].logged
          /\ logObs[c].saved
    /\ ret[1] # ret[2]
    /\ \A c \in AllCallers :
          \E i \in DOMAIN StoredHistory(files, ManagerFile) :
             StoredHistory(files, ManagerFile)[i] = ret[c]

----------------------------------------------------------------------------
(* The firmware tools: one call of one handler, with arguments drawn from  *)
(* small sets, over a cache file that is missing or was left by an earlier *)
(* session of the server.  Every write succeeds.                           *)

\* the document an earlier session stored: a token that expires at time 1
EarlierDocument ==
    ManagerDocument([token |-> Jwt(1),
                     api_test |-> test_api_with_token(Jwt(1), 200, 0)], 0)

GroupArgs == {None, GroupId("group-of-caller")}
DeviceIdLists == {<<"mn=TVgtMzA3MA==:sn=MTIzNDU2Nzg=">>,
                  <<"mn=TVgtMzA3MA==:sn=MTIzNDU2Nzg=", "printer-7">>}
OtaModes == valid_modes \cup {"manual"}
HourArgs == {None, Hour(-1), Hour(5), Hour(24)}
FileIds == {"0f8fad5b-d9cb-469f-a165-70867728950e", "firmware.bin"}
ExecuteDatetimes == {"203001010200", "2030-01-01 02:00"}
TransferDatetimes == 0 .. (MaxTimeFacade + 1)
PageSizes == {25, 500}

InitTools ==
    /\ now = 0
    /\ files \in {[p \in Paths |-> Absent],
                  WriteFile([p \in Paths |-> Absent], ManagerFile,
                            EarlierDocument, "ok")}
    /\ extFile \in Paths
    /\ extractor = None
    /\ pc = [c \in AllCallers |-> "idle"]
    /\ call = [c \in AllCallers |-> IdleCall]
    /\ ret = [c \in AllCallers |-> None]
    /\ ioFaults = 0
    /\ logObs = [c \in AllCallers |-> NoObs]
    /\ requests = 0
    /\ decArg = None
    /\ decRes = [done |-> FALSE, value |-> FALSE]
    /\ page = NoPage
    /\ tool = NoTool

(* A handler runs from its first line: validate the arguments and return   *)
(* the error, or resolve the group id, build the payload and enter         *)
(* _make_api_call, which ends in this step when the cached token is good   *)
(* and suspends in an automation run otherwise.                            *)
ToolCall(c, name, args) ==
    /\ pc[c] = "idle"
    /\ LET check == validate(name, args, now)
       IN  IF check # "ok"
           THEN /\ ret' = [ret EXCEPT ![c] = [success |-> FALSE, error |-> check]]
                /\ pc' = [pc EXCEPT ![c] = "done"]
                /\ call' = [call EXCEPT ![c] =
                              [op |-> name, method |-> "none", runs |-> 0,
                               result |-> None, browser |-> "none"]]
                /\ tool' = [name |-> name, args |-> args, payload |-> None,
                            cache_read |-> FALSE]
                /\ UNCHANGED <<files, extractor, logObs, ioFaults, requests>>
           ELSE LET group_id == resolve_group_id(args.group_id, files)
                    running == [name |-> name, args |-> args,
                                payload |-> ToolPayload(name, args, group_id),
                                cache_read |-> TRUE]
                    token_data == LoadOrEmpty(files)
                    token == TokenOf(token_data)
                IN  /\ tool' = running
                    /\ IF cached_token_ok(token, now)
                       THEN \E http \in HttpOutcomes, o \in AllowedOutcomes(ioFaults) :
                              LET tail == _make_api_call_after(
                                             files, TokenList(token, token_data),
                                             ToolEndpoint(name), "POST", http,
                                             requests + 1, o)
                              IN  /\ ~tail.wrote => o = "ok"
                                  /\ tail.wrote => requests < MaxRequests
                                  /\ requests' = IF tail.wrote THEN requests + 1
                                                  ELSE requests
                                  /\ ioFaults' = ioFaults - Faults(o)
                                  /\ files' = tail.files
                                  /\ \E r \in ToolResults(running, tail.files,
                                                          tail.value) :
                                        ret' = [ret EXCEPT ![c] = r]
                                  /\ logObs' = [logObs EXCEPT ![c] = tail.obs]
                                  /\ pc' = [pc EXCEPT ![c] = "done"]
                                  /\ call' = [call EXCEPT ![c] =
                                                [op |-> "_make_api_call",
                                                 method |-> "POST", runs |-> 0,
                                                 result |-> None,
                                                 browser |-> "none"]]
                                  /\ UNCHANGED extractor
                       ELSE /\ pc' = [pc EXCEPT ![c] = "launch"]
                            /\ call' = [call EXCEPT ![c] =
                                          [op |-> "_make_api_call",
                                           method |-> "POST", runs |-> 1,
                                           result |-> None, browser |-> "none"]]
                            /\ extractor' = IF IsNone(extractor) THEN NewExtractor
                                            ELSE extractor
                            /\ UNCHANGED <<files, ret, logObs, ioFaults, requests>>
    /\ UNCHANGED <<now, extFile, decArg, decRes, page>>

list_devices(c) ==
    \E args \in [group_id : GroupArgs, page_size : PageSizes] :
       ToolCall(c, "list_devices", args)

configure_ota_mode(c) ==
    \E args \in [device_ids : DeviceIdLists, ota_mode : OtaModes,
                 start_hour : HourArgs, end_hour : HourArgs,
                 group_id : GroupArgs] :
       ToolCall(c, "configure_ota_mode", args)

list_staged_firmware(c) ==
    \E args \in [group_id : GroupArgs, count : PageSizes] :
       ToolCall(c, "list_staged_firmware", args)

schedule_firmware_update(c) ==
    \E args \in [device_ids : DeviceIdLists, firmware_file_id : FileIds,
                 transfer_datetime : TransferDatetimes,
                 execute_datetime : ExecuteDatetimes, group_id : GroupArgs] :
       ToolCall(c, "schedule_firmware_update", args)

cancel_scheduled_update(c) ==
    \E args \in [device_ids : DeviceIdLists, group_id : GroupArgs] :
       ToolCall(c, "cancel_scheduled_update", args)

NextTools ==
    \/ list_devices(1)
    \/ configure_ota_mode(1)
    \/ list_staged_firmware(1)
    \/ schedule_firmware_update(1)
    \/ cancel_scheduled_update(1)
    \/ Launch(1)
    \/ Navigate(1)
    \/ Auth0Login(1)
    \/ SharpStartSelection(1)
    \/ SharpLogin(1)
    \/ WaitForDashboard(1)
    \/ Priority1(1)
    \/ TriggerApiCalls(1)
    \/ CaptureRest(1)
    \/ Teardown(1)
    \/ Tick(MaxTimeFacade)

SpecTools == InitTools /\ [][NextTools]_vars

\* the sspTenantId claim a token carries: None when it carries none
TenantClaim(token) ==
    LET payload == _decode_jwt_payload(token)
    IN  IF IsNone(payload) THEN None ELSE Get(payload, "sspTenantId")

(* C35: when a firmware tool called without a group_id gets a response to  *)
(* its request, the groupId of the payload it sent is the sspTenantId      *)
(* claim of the token that authorized the request (the token the cache     *)
(* holds when the response is logged), provided that token carries the     *)
(* claim; it is not the hard-coded default.                                *)
C35_GroupIdOfAuthorizingToken ==
    [][\A c \in Callers :
         (/\ Returns(c)
          /\ tool'.name # "none"
          /\ logObs'[c].logged
          /\ IsNone(tool'.args.group_id)
          /\ ~IsNone(TenantClaim(CachedToken(files'))))
           => /\ tool'.payload.groupId = TenantClaim(CachedToken(files'))
              /\ tool'.payload.groupId # DefaultGroupId]_vars

\* some id of the list is not of the form mn=<base64>:sn=<base64>
MalformedDevice(device_ids) ==
    \E i \in DOMAIN device_ids : device_ids[i] \notin device_id_pattern

\* the arguments the three validating handlers are to reject, at time t
InvalidArgument(name, args, t) ==
    CASE name = "configure_ota_mode" ->
            \/ args.ota_mode \notin {"auto", "confirmation", "off"}
            \/ MalformedDevice(args.device_ids)
      [] name = "schedule_firmware_update" ->
            \/ MalformedDevice(args.device_ids)
            \/ args.firmware_file_id \notin uuid_pattern
            \/ args.execute_datetime \notin datetime_pattern
            \/ args.transfer_datetime <= t
      [] name = "cancel_scheduled_update" ->
            MalformedDevice(args.device_ids)
      [] OTHER -> FALSE

(* C37: a call of configure_ota_mode, schedule_firmware_update or          *)
(* cancel_scheduled_update with an invalid argument returns success=false  *)
(* in its first step, and that step reads no cache, starts no automation   *)
(* run, handles no downstream response and leaves the cache file and its   *)
(* call history as they were.                                              *)
C37_ValidationBeforeSideEffects ==
    [][\A c \in Callers :
         (/\ Starts(c)
          /\ InvalidArgument(tool'.name, tool'.args, now))
           => /\ pc'[c] = "done"
              /\ ret'[c].success = FALSE
              /\ ~tool'.cache_read
              /\ tool'.payload = None
              /\ call'[c].runs = 0
              /\ extractor' = extractor
              /\ requests' = requests
              /\ logObs' = logObs
              /\ files' = files]_vars

(* schedule_firmware_update has been refused for a transfer_datetime that  *)
(* is not in the future, every other argument being well-formed            *)
C37_Witness ==
    /\ tool.name = "schedule_firmware_update"
    /\ ~MalformedDevice(tool.args.device_ids)
    /\ tool.args.firmware_file_id \in uuid_pattern
    /\ tool.args.execute_datetime \in datetime_pattern
    /\ tool.args.transfer_datetime <= now
    /\ now > 0
    /\ pc[1] = "done"
    /\ ret[1].success = FALSE
    /\ ~tool.cache_read

\* an hour of the update window: 0..23, or -1 for the whole day
ValidHour(h) == h = -1 \/ h \in 0 .. 23

(* C38: whatever the ota_mode, a configure_ota_mode call whose start_hour  *)
(* or end_hour (2 and 4 when omitted) is not an hour in 0..23 or -1 is     *)
(* refused with success=false and builds no request; a request that is     *)
(* built carries the hours given, or the defaults.                         *)
C38_HoursValidated ==
    tool.name = "configure_ota_mode"
      => LET start_hour == IF IsNone(tool.args.start_hour) THEN 2
                           ELSE tool.args.start_hour.value
             end_hour == IF IsNone(tool.args.end_hour) THEN 4
                         ELSE tool.args.end_hour.value
         IN  /\ ~(ValidHour(start_hour) /\ ValidHour(end_hour))
                  => /\ pc[1] = "done"
                     /\ ret[1].success = FALSE
                     /\ tool.payload = None
                     /\ requests = 0
             /\ tool.payload # None
                  => /\ tool.payload.otaStartHour = start_hour
                     /\ tool.payload.otaEndHour = end_hour

============================================================================
